---- MODULE Spec2Model ----
(***************************************************************************)
(* Model of the blog server: the Express route handlers for posts and      *)
(* users, the authorization middleware they are mounted behind, and the    *)
(* Post model's methods and save hook.  The document store is the pair     *)
(* (users, posts); a request is one action (or, in the concurrent          *)
(* specifications, one action per await point of its handler).             *)
(*                                                                         *)
(* Strings that the code inspects character by character (titles, bodies   *)
(* of text, query-string numbers) are sequences of one-character strings.  *)
(* Identifiers and enumerated values are plain strings.                    *)
(***************************************************************************)
EXTENDS Integers, Sequences, FiniteSets, TLC

VARIABLES users, posts, last, inflight, served, prior

vars == <<users, posts, last, inflight, served, prior>>

-----------------------------------------------------------------------------
(* Characters and string helpers (JavaScript String methods).               *)

UpperLetters == <<"A","B","C","D","E","F","G","H","I","J","K","L","M",
                  "N","O","P","Q","R","S","T","U","V","W","X","Y","Z">>

LowerLetters == <<"a","b","c","d","e","f","g","h","i","j","k","l","m",
                  "n","o","p","q","r","s","t","u","v","w","x","y","z">>

Digits == <<"0","1","2","3","4","5","6","7","8","9">>

Range(s) == { s[i] : i \in DOMAIN s }

\* \s of a JavaScript regular expression, over the characters the model uses
Whitespace == {" "}

\* \w of a JavaScript regular expression
WordChars == Range(UpperLetters) \cup Range(LowerLetters) \cup Range(Digits) \cup {"_"}

ToLowerChar(c) ==
    IF c \in Range(UpperLetters)
    THEN LowerLetters[CHOOSE i \in DOMAIN UpperLetters : UpperLetters[i] = c]
    ELSE c

\* String.prototype.toLowerCase
toLowerCase(s) == [i \in DOMAIN s |-> ToLowerChar(s[i])]

RECURSIVE DropLeading(_, _)
DropLeading(s, set) ==
    IF s # <<>> /\ Head(s) \in set THEN DropLeading(Tail(s), set) ELSE s

RECURSIVE DropTrailing(_, _)
DropTrailing(s, set) ==
    IF s # <<>> /\ s[Len(s)] \in set
    THEN DropTrailing(SubSeq(s, 1, Len(s) - 1), set)
    ELSE s

\* String.prototype.trim: it takes no argument and strips whitespace only
trim(s) == DropTrailing(DropLeading(s, Whitespace), Whitespace)

\* s.replace(/[set]+/g, rep): every maximal run of characters of set becomes rep
RECURSIVE ReplaceRuns(_, _, _)
ReplaceRuns(s, set, rep) ==
    IF s = <<>> THEN <<>>
    ELSE IF Head(s) \in set
         THEN rep \o ReplaceRuns(DropLeading(s, set), set, rep)
         ELSE <<Head(s)>> \o ReplaceRuns(Tail(s), set, rep)

\* p (given in lower case) is a prefix of s, ignoring case
IsPrefixCI(p, s) ==
    /\ Len(p) <= Len(s)
    /\ \A i \in DOMAIN p : ToLowerChar(s[i]) = p[i]

\* s.replace(/p/gi, ''): leftmost non-overlapping occurrences, one pass
RECURSIVE RemoveAllCI(_, _)
RemoveAllCI(s, p) ==
    IF s = <<>> THEN <<>>
    ELSE IF IsPrefixCI(p, s)
         THEN RemoveAllCI(SubSeq(s, Len(p) + 1, Len(s)), p)
         ELSE <<Head(s)>> \o RemoveAllCI(Tail(s), p)

\* a regular expression made of the literal p with the i flag matches in s
ContainsCI(s, p) ==
    \E i \in 1..(Len(s) + 1) : IsPrefixCI(toLowerCase(p), SubSeq(s, i, Len(s)))

-----------------------------------------------------------------------------
(* utils/validation: sanitizeInput.                                         *)

RemoveChars(s, set) == SelectSeq(s, LAMBDA c : c \notin set)

\* length of the match of /on\w+=/i at the head of s, 0 when there is none
OnHandlerLen(s) ==
    IF ~IsPrefixCI(<<"o","n">>, s) THEN 0
    ELSE LET rest == SubSeq(s, 3, Len(s))
             run  == Len(rest) - Len(DropLeading(rest, WordChars))
         IN  IF run >= 1 /\ Len(rest) > run /\ rest[run + 1] = "="
             THEN run + 3
             ELSE 0

RECURSIVE RemoveOnHandlers(_)
RemoveOnHandlers(s) ==
    IF s = <<>> THEN <<>>
    ELSE IF OnHandlerLen(s) > 0
         THEN RemoveOnHandlers(SubSeq(s, OnHandlerLen(s) + 1, Len(s)))
         ELSE <<Head(s)>> \o RemoveOnHandlers(Tail(s))

ScriptOpen == <<"<","s","c","r","i","p","t">>

ScriptClose == <<"<","/","s","c","r","i","p","t",">">>

\* length of the match of /<script\b[^<]*(?:(?!<\/script>)<[^<]*)*<\/script>/i
\* at the head of s, 0 when there is none: up to the first closing tag
ScriptBlockLen(s) ==
    IF /\ IsPrefixCI(ScriptOpen, s)
       /\ (Len(s) = Len(ScriptOpen) \/ s[Len(ScriptOpen) + 1] \notin WordChars)
       /\ \E j \in (Len(ScriptOpen) + 1)..Len(s) :
              IsPrefixCI(ScriptClose, SubSeq(s, j, Len(s)))
    THEN LET j == CHOOSE k \in (Len(ScriptOpen) + 1)..Len(s) :
                      /\ IsPrefixCI(ScriptClose, SubSeq(s, k, Len(s)))
                      /\ \A m \in (Len(ScriptOpen) + 1)..(k - 1) :
                             ~IsPrefixCI(ScriptClose, SubSeq(s, m, Len(s)))
         IN  j + Len(ScriptClose) - 1
    ELSE 0

RECURSIVE RemoveScriptBlocks(_)
RemoveScriptBlocks(s) ==
    IF s = <<>> THEN <<>>
    ELSE IF ScriptBlockLen(s) > 0
         THEN RemoveScriptBlocks(SubSeq(s, ScriptBlockLen(s) + 1, Len(s)))
         ELSE <<Head(s)>> \o RemoveScriptBlocks(Tail(s))

\* the string branch of sanitizeInput: the four replacements in source order
sanitizeString(s) ==
    RemoveScriptBlocks(
        RemoveOnHandlers(
            RemoveAllCI(
                RemoveChars(trim(s), {"<", ">"}),
                <<"j","a","v","a","s","c","r","i","p","t",":">>)))

\* the fields of a request body that carry free text; the other fields hold
\* identifiers, enumerated words or booleans, which sanitizeInput returns as is
TextFields == {"title", "content", "slug", "firstName", "lastName", "username", "email", "password"}

\* the object branch of sanitizeInput: every string-valued field is sanitized
sanitizeInput(data) ==
    [f \in DOMAIN data |->
        IF f \in TextFields THEN sanitizeString(data[f]) ELSE data[f]]

-----------------------------------------------------------------------------
(* models/Post: the slug derivation of the pre-save hook.                   *)

SlugChars == Range(LowerLetters) \cup Range(Digits) \cup Whitespace \cup {"-"}

generateSlug(title) ==
    trim(ReplaceRuns(
            ReplaceRuns(
                SelectSeq(toLowerCase(title), LAMBDA c : c \in SlugChars),
                Whitespace, <<"-">>),
            {"-"}, <<"-">>))

-----------------------------------------------------------------------------
(* The stored data.                                                         *)

UserIds == {"a", "b", "adm"}

PostIds == {"p1", "p2"}

\* the stored categories; no route of the server changes them
CategoryIds == {"c1", "c2"}

\* a well-formed identifier that names no stored document
GhostId == "f9"

\* strings of 24 hexadecimal digits, as far as the model has any
MongoIds == UserIds \cup PostIds \cup CategoryIds \cup {GhostId}

Statuses == {"draft", "published", "archived"}

Roles == {"user", "admin"}

Stored(docs) == DOMAIN docs

\* a collection without the documents ids (deleteMany, findByIdAndDelete)
Remove(docs, ids) == [d \in (DOMAIN docs) \ ids |-> docs[d]]

\* a collection with the document id written
Put(docs, id, doc) == [d \in (DOMAIN docs) \cup {id} |-> IF d = id THEN doc ELSE docs[d]]

-----------------------------------------------------------------------------
(* middleware/auth: the bearer token and the required-auth middleware.      *)

NoToken == [kind |-> "none", userId |-> "-"]

\* what a client can send in the Authorization header: nothing, a string that
\* is no token, a token signed with another key, an expired token, or a token
\* issued by generateToken for a user id
Tokens ==
    {NoToken,
     [kind |-> "malformed", userId |-> "-"],
     [kind |-> "forged", userId |-> "adm"],
     [kind |-> "expired", userId |-> "a"]}
    \cup { [kind |-> "valid", userId |-> u] : u \in UserIds }

\* jwt.verify: the claims, or the name of the error it throws
jwtVerify(tok) ==
    CASE tok.kind = "valid"   -> [ok |-> TRUE,  name |-> "",                  userId |-> tok.userId]
      [] tok.kind = "expired" -> [ok |-> FALSE, name |-> "TokenExpiredError", userId |-> "-"]
      [] OTHER                -> [ok |-> FALSE, name |-> "JsonWebTokenError", userId |-> "-"]

Reject(status, error) == [next |-> FALSE, status |-> status, user |-> "-", error |-> error]

Pass(user) == [next |-> TRUE, status |-> 0, user |-> user, error |-> ""]

\* auth without its test of user.isActive
authIgnoringActive(tok, us) ==
    IF tok.kind = "none"
    THEN Reject(401, "Access denied. No token provided.")
    ELSE LET decoded == jwtVerify(tok) IN
         IF ~decoded.ok
         THEN Reject(401, "Invalid token.")
         ELSE IF decoded.userId \notin Stored(us)
              THEN Reject(401, "Invalid token. User not found.")
              ELSE Pass(decoded.userId)

\* auth(req, res, next): next is called with req.user set, or a response is sent
auth(tok, us) ==
    IF tok.kind = "none"
    THEN Reject(401, "Access denied. No token provided.")
    ELSE LET decoded == jwtVerify(tok) IN
         IF ~decoded.ok
         THEN IF decoded.name = "JsonWebTokenError"
              THEN Reject(401, "Invalid token.")
              ELSE IF decoded.name = "TokenExpiredError"
                   THEN Reject(401, "Token expired.")
                   ELSE Reject(500, "Authentication failed.")
         ELSE IF decoded.userId \notin Stored(us)
              THEN Reject(401, "Invalid token. User not found.")
              ELSE IF ~us[decoded.userId].isActive
                   THEN Reject(401, "Account is deactivated.")
                   ELSE Pass(decoded.userId)

\* adminAuth without its test of req.user.role
adminAuthAnyRole(tok, us) == auth(tok, us)

\* adminAuth: auth, then the role of req.user
adminAuth(tok, us) ==
    LET r == auth(tok, us) IN
    IF ~r.next THEN r
    ELSE IF us[r.user].role # "admin"
         THEN Reject(403, "Access denied. Admin privileges required.")
         ELSE r

-----------------------------------------------------------------------------
(* middleware/errorHandler and mongoose's save.                             *)

\* a handler's outcome: the HTTP status, the response body, the collections
Outcome(status, out, us, ps) == [status |-> status, out |-> out, users |-> us, posts |-> ps]

\* throw new AppError(message, statusCode) under asyncHandler: errorHandler
\* answers with the error's statusCode and nothing is written
Fail(status, message, us, ps) == Outcome(status, [error |-> message], us, ps)

TitleMin == 3

TitleMax == 200

ContentMin == 10

ContentMax == 10000

\* the slug path: required, and match /^[a-z0-9-]+$/
SlugMatch(slug) ==
    /\ slug # <<>>
    /\ \A i \in DOMAIN slug : slug[i] \in Range(LowerLetters) \cup Range(Digits) \cup {"-"}

\* the schema's validators on the paths a save finds modified; mongoose runs
\* them before the pre('save') hooks
SchemaValid(old, new) ==
    /\ new.title # old.title =>
           Len(new.title) >= TitleMin /\ Len(new.title) <= TitleMax
    /\ new.slug # old.slug => SlugMatch(new.slug)
    /\ new.content # old.content =>
           Len(new.content) >= ContentMin /\ Len(new.content) <= ContentMax
    /\ new.status # old.status => new.status \in Statuses

\* postSchema.pre('save'): the slug follows the title when the title is modified
preSave(old, new) ==
    IF new.title = old.title
    THEN new
    ELSE [new EXCEPT !.slug = generateSlug(new.title)]

\* the schema's setters, applied when a path is assigned
SetPath(f, v) ==
    CASE f = "title" -> trim(v)
      [] f = "slug"  -> trim(toLowerCase(v))
      [] OTHER       -> v

\* Object.assign(post, updates)
assign(post, updates) ==
    [f \in DOMAIN post |->
        IF f \in DOMAIN updates THEN SetPath(f, updates[f]) ELSE post[f]]

\* the update a save sends: the paths modified since the document was loaded
\* are $set on the stored document, the other paths stay as they are stored
Written(stored, old, doc) ==
    [f \in DOMAIN stored |-> IF doc[f] # old[f] THEN doc[f] ELSE stored[f]]

\* post.save() of a document loaded as old and changed to new: validation, the
\* pre-save hook, the unique index on slug, the write.  The result is the
\* status an error maps to in errorHandler (400 for ValidationError and for
\* duplicate key 11000, 500 for a document that is no longer stored), or 0.
save(ps, id, old, new) ==
    IF ~SchemaValid(old, new)
    THEN [status |-> 400, posts |-> ps, doc |-> new]
    ELSE LET doc == preSave(old, new) IN
         IF id \notin Stored(ps)
         THEN [status |-> 500, posts |-> ps, doc |-> doc]
         ELSE IF \E q \in Stored(ps) \ {id} : ps[q].slug = Written(ps[id], old, doc).slug
              THEN [status |-> 400, posts |-> ps, doc |-> doc]
              ELSE [status |-> 0, posts |-> Put(ps, id, Written(ps[id], old, doc)),
                    doc |-> doc]

-----------------------------------------------------------------------------
(* routes/posts: PUT /:id and DELETE /:id.                                  *)

Has(r, f) == f \in DOMAIN r

\* the trim() sanitizers of the validation chain rewrite req.body
PutPostTrim(body) ==
    [f \in DOMAIN body |->
        IF f \in {"title", "content"} THEN trim(body[f]) ELSE body[f]]

\* the validation chain of PUT /:id, as checkValidationResult sees it
PutPostValid(body) ==
    /\ Has(body, "title") =>
           Len(body.title) >= TitleMin /\ Len(body.title) <= TitleMax
    /\ Has(body, "content") =>
           Len(body.content) >= ContentMin /\ Len(body.content) <= ContentMax
    /\ Has(body, "category") => body.category \in MongoIds
    /\ Has(body, "status") => body.status \in Statuses
    /\ Has(body, "featured") => body.featured \in BOOLEAN

\* the ownership test left out
IsOwnerSkipped(post, user) == TRUE

\* the ownership test of PUT /:id and DELETE /:id
IsOwner(post, user) == post.author = user

\* router.put('/:id') after auth: user is req.user._id
putPost(user, id, body, us, ps) ==
    LET trimmed == PutPostTrim(body)
        updates == sanitizeInput(trimmed)
    IN
    IF ~PutPostValid(trimmed) THEN Fail(400, "Validation failed", us, ps)
    ELSE IF id \notin Stored(ps) THEN Fail(404, "Post not found", us, ps)
    ELSE IF ~IsOwner(ps[id], user)
         THEN Fail(403, "You can only edit your own posts", us, ps)
    ELSE IF Has(updates, "category") /\ updates.category \notin CategoryIds
         THEN Fail(404, "Category not found", us, ps)
    ELSE LET saved == save(ps, id, ps[id], assign(ps[id], updates)) IN
         IF saved.status # 0
         THEN Fail(saved.status, "save failed", us, ps)
         ELSE Outcome(200, [post |-> saved.doc], us, saved.posts)

\* router.delete('/:id') after auth
deletePost(user, id, us, ps) ==
    IF id \notin Stored(ps) THEN Fail(404, "Post not found", us, ps)
    ELSE IF ~IsOwner(ps[id], user)
         THEN Fail(403, "You can only delete your own posts", us, ps)
    ELSE Outcome(200, [message |-> "Post deleted successfully"], us, Remove(ps, {id}))

-----------------------------------------------------------------------------
(* utils/validation: validatePagination and validateSearchQuery.            *)

\* String(undefined): what parseInt sees for a parameter the request lacks
Undefined == <<"u","n","d","e","f","i","n","e","d">>

Get(r, f) == IF Has(r, f) THEN r[f] ELSE Undefined

DigitValue(c) == (CHOOSE i \in DOMAIN Digits : Digits[i] = c) - 1

RECURSIVE DigitsValue(_, _)
DigitsValue(s, acc) ==
    IF s # <<>> /\ Head(s) \in Range(Digits)
    THEN DigitsValue(Tail(s), 10 * acc + DigitValue(Head(s)))
    ELSE acc

NaN == [nan |-> TRUE, val |-> 0]

\* parseInt(string): leading whitespace, an optional sign, the leading digits
parseInt(s) ==
    LET t    == DropLeading(s, Whitespace)
        neg  == t # <<>> /\ Head(t) = "-"
        body == IF t # <<>> /\ Head(t) \in {"-", "+"} THEN Tail(t) ELSE t
    IN  IF body = <<>> \/ Head(body) \notin Range(Digits)
        THEN NaN
        ELSE [nan |-> FALSE,
              val |-> IF neg THEN 0 - DigitsValue(body, 0) ELSE DigitsValue(body, 0)]

\* x || d for a number x: NaN and 0 are falsy
OrDefault(x, d) == IF x.nan \/ x.val = 0 THEN d ELSE x.val

DefaultPage == 1

DefaultLimit == 10

LimitMax == 100

validatePagination(page, limit) ==
    LET pageNum  == OrDefault(parseInt(page), DefaultPage)
        limitNum == OrDefault(parseInt(limit), DefaultLimit)
    IN  IF pageNum < 1
        THEN [ok |-> FALSE, page |-> pageNum, limit |-> limitNum,
              error |-> "Page number must be greater than 0"]
        ELSE IF limitNum < 1 \/ limitNum > LimitMax
             THEN [ok |-> FALSE, page |-> pageNum, limit |-> limitNum,
                   error |-> "Limit must be between 1 and 100"]
             ELSE [ok |-> TRUE, page |-> pageNum, limit |-> limitNum, error |-> ""]

SearchMin == 2

SearchMax == 100

validateSearchQuery(query) ==
    LET trimmedQuery == trim(query) IN
    IF Len(trimmedQuery) < SearchMin \/ Len(trimmedQuery) > SearchMax
    THEN [ok |-> FALSE, query |-> trimmedQuery]
    ELSE [ok |-> TRUE, query |-> trimmedQuery]

\* express-validator isInt(): a decimal integer without leading zeros
isInt(s) ==
    LET body == IF s # <<>> /\ Head(s) \in {"-", "+"} THEN Tail(s) ELSE s IN
    /\ body # <<>>
    /\ \A i \in DOMAIN body : body[i] \in Range(Digits)
    /\ (Len(body) > 1 => Head(body) # "0")

-----------------------------------------------------------------------------
(* routes/posts: GET /.                                                     *)

\* the validation chain of GET /
ListPostsValid(q) ==
    /\ Has(q, "page") => isInt(q.page) /\ parseInt(q.page).val >= 1
    /\ Has(q, "limit") =>
           isInt(q.limit) /\ parseInt(q.limit).val >= 1 /\ parseInt(q.limit).val <= LimitMax
    /\ Has(q, "category") => q.category \in MongoIds
    /\ Has(q, "search") => Len(q.search) >= SearchMin /\ Len(q.search) <= SearchMax
    /\ Has(q, "status") => q.status \in Statuses

\* the default status filter set to another status
ListStatusDraftDefault(q) == IF Has(q, "status") THEN q.status ELSE "draft"

\* the filter built by GET /: the status asked for, 'published' without one
ListStatus(q) == IF Has(q, "status") THEN q.status ELSE "published"

Matches(post, q, term) ==
    /\ post.status = ListStatus(q)
    /\ Has(q, "category") => post.category = q.category
    /\ Has(q, "search") =>
           \/ ContainsCI(post.title, term)
           \/ ContainsCI(post.content, term)
           \/ \E i \in DOMAIN post.tags : ContainsCI(post.tags[i], term)

\* .sort({ createdAt: -1 }): the identifiers of ids, newest first
RECURSIVE SortNewestFirst(_, _)
SortNewestFirst(ps, ids) ==
    IF ids = {} THEN <<>>
    ELSE LET newest == CHOOSE p \in ids : \A o \in ids : ps[o].createdAt <= ps[p].createdAt
         IN  <<newest>> \o SortNewestFirst(ps, ids \ {newest})

\* .skip(skip).limit(limit)
Page(seq, skip, limit) ==
    SubSeq(seq, skip + 1, IF skip + limit < Len(seq) THEN skip + limit ELSE Len(seq))

\* router.get('/'): no middleware of the route reads the Authorization header
listPosts(q, us, ps) ==
    IF ~ListPostsValid(q) THEN Fail(400, "Validation failed", us, ps)
    ELSE LET search == validateSearchQuery(Get(q, "search"))
             pg     == validatePagination(Get(q, "page"), Get(q, "limit"))
         IN
         IF Has(q, "search") /\ ~search.ok THEN Fail(500, "Search query", us, ps)
         ELSE IF ~pg.ok THEN Fail(500, pg.error, us, ps)
         ELSE LET found == { p \in Stored(ps) : Matches(ps[p], q, search.query) }
                  all   == SortNewestFirst(ps, found)
              IN  Outcome(200,
                          [posts |-> Page(all, (pg.page - 1) * pg.limit, pg.limit),
                           page  |-> pg.page,
                           limit |-> pg.limit,
                           total |-> Cardinality(found)],
                          us, ps)

-----------------------------------------------------------------------------
(* The requests the model sends, and the seeded collections.                *)

TOne == <<"O","n","e">>

TTwo == <<"T","w","o"," ","2">>

\* a title whose slug is the slug of TOne
TOneBang == <<"o","n","e","!">>

TShort == <<"a","b">>

Content1 == <<"c","o","n","t","e","n","t"," ","0","1">>

Content2 == <<"C","O","N","T","E","N","T"," ","0","2">>

PutBodies ==
    {[title |-> TOneBang],
     [title |-> TTwo, status |-> "published"],
     [content |-> Content2, featured |-> TRUE, category |-> "c2"],
     [status |-> "archived"],
     [category |-> GhostId],
     [title |-> TShort]}

ListQueries ==
    {[status |-> "draft"],
     [status |-> "archived"],
     [status |-> "bogus"],
     [sort |-> "views", order |-> "desc"],
     [category |-> "c1", search |-> <<"o","N">>],
     [page |-> <<"2">>, limit |-> <<"1">>],
     [limit |-> <<"0">>]}

\* the callers of the post routes: no token, no valid token, a user, another
\* user, an admin
PostCallers ==
    {NoToken, [kind |-> "malformed", userId |-> "-"]}
    \cup { [kind |-> "valid", userId |-> u] : u \in UserIds }

ListCallers ==
    {NoToken, [kind |-> "expired", userId |-> "a"],
     [kind |-> "valid", userId |-> "b"], [kind |-> "valid", userId |-> "adm"]}

\* the usernames, e-mail addresses and creation order of the seeded users
SeedName(u) ==
    CASE u = "a"   -> <<"a","n","n">>
      [] u = "b"   -> <<"b","o","b">>
      [] OTHER     -> <<"r","o","o","t">>

SeedEmail(u) == SeedName(u) \o <<"@","x",".","i","o">>

SeedCreatedAt(u) == CASE u = "a" -> 1 [] u = "b" -> 2 [] OTHER -> 3

\* the stored form of a password: the pre-save hook of the User model hashes it
hashPassword(pw) == <<"#">> \o pw

SeedPassword == <<"P","a","s","s","1","2">>

SeedUsers ==
    [u \in UserIds |->
        [role |-> IF u = "adm" THEN "admin" ELSE "user", isActive |-> TRUE,
         firstName |-> <<>>, username |-> SeedName(u), email |-> SeedEmail(u),
         password |-> hashPassword(SeedPassword), createdAt |-> SeedCreatedAt(u)]]

SeedPost(title, author, status, createdAt) ==
    [title |-> title, content |-> Content1, author |-> author, category |-> "c1",
     slug |-> generateSlug(title), status |-> status, tags |-> <<>>,
     featured |-> FALSE, views |-> 0, likes |-> <<>>, createdAt |-> createdAt]

SeedPosts ==
    [p \in PostIds |->
        IF p = "p1" THEN SeedPost(TOne, "a", "published", 1)
                    ELSE SeedPost(TTwo, "b", "draft", 2)]

NoRequest ==
    [op |-> "none", tok |-> NoToken, id |-> "-", req |-> <<>>, status |-> 0,
     user |-> "-", ran |-> FALSE, out |-> <<>>,
     prePosts |-> SeedPosts, preUsers |-> SeedUsers]

Init ==
    /\ users = SeedUsers
    /\ posts = SeedPosts
    /\ last = NoRequest
    /\ inflight = <<>>
    /\ served = [p \in PostIds |-> 0]
    /\ prior = NoRequest

\* what last records of an answered request: the request, the middleware's
\* verdict a, the response r and the collections as they were before
Answered(op, tok, id, req, a, r) ==
    [op |-> op, tok |-> tok, id |-> id, req |-> req, status |-> r.status,
     user |-> a.user, ran |-> a.next, out |-> r.out,
     prePosts |-> posts, preUsers |-> users]

\* the response of a middleware that did not call next
Rejected(a) == Outcome(a.status, [error |-> a.error], users, posts)

PutPost ==
    \E tok \in PostCallers, id \in PostIds, body \in PutBodies :
        LET a == auth(tok, users)
            r == IF a.next THEN putPost(a.user, id, body, users, posts) ELSE Rejected(a)
        IN  /\ users' = r.users
            /\ posts' = r.posts
            /\ last' = Answered("PutPost", tok, id, body, a, r)
            /\ UNCHANGED <<inflight, served, prior>>

DeletePost ==
    \E tok \in PostCallers, id \in PostIds :
        LET a == auth(tok, users)
            r == IF a.next THEN deletePost(a.user, id, users, posts) ELSE Rejected(a)
        IN  /\ users' = r.users
            /\ posts' = r.posts
            /\ last' = Answered("DeletePost", tok, id, <<>>, a, r)
            /\ UNCHANGED <<inflight, served, prior>>

ListPosts ==
    \E tok \in ListCallers, q \in ListQueries :
        LET r == listPosts(q, users, posts)
        IN  /\ users' = r.users
            /\ posts' = r.posts
            /\ last' = Answered("ListPosts", tok, "-", q, Pass("-"), r)
            /\ UNCHANGED <<inflight, served, prior>>

Next == PutPost \/ DeletePost \/ ListPosts

Spec == Init /\ [][Next]_vars

-----------------------------------------------------------------------------
(* routes/posts: GET /:id, and models/Post: incrementViews.                 *)

\* the validation chain of GET /:id: query('id') reads the query string, not
\* the route parameter; isMongoId fails on a parameter the request lacks
GetPostValid(q) == Has(q, "id") /\ q.id \in MongoIds

\* this.views += 1
incrementViews(doc) == [doc EXCEPT !.views = doc.views + 1]

\* the first half of router.get('/:id'): validation and Post.findById
getPostLoad(id, q, us, ps) ==
    IF ~GetPostValid(q) THEN Fail(400, "Validation failed", us, ps)
    ELSE IF id \notin Stored(ps) THEN Fail(404, "Post not found", us, ps)
    ELSE Outcome(0, [post |-> ps[id]], us, ps)

\* the second half: post.incrementViews() on the document loaded, the response
getPostSave(id, loaded, us, ps) ==
    LET saved == save(ps, id, loaded, incrementViews(loaded)) IN
    IF saved.status # 0
    THEN Fail(saved.status, "save failed", us, ps)
    ELSE Outcome(200, [post |-> saved.doc], us, saved.posts)

\* router.get('/:id') with nothing running between its awaits
getPost(id, q, us, ps) ==
    LET loaded == getPostLoad(id, q, us, ps) IN
    IF loaded.status # 0 THEN loaded
    ELSE getPostSave(id, loaded.out.post, us, ps)

\* the query strings sent with GET /:id: none, the identifier repeated as
\* ?id=, and an ?id= that is no identifier
GetQueries(id) == {<<>>, [id |-> id], [id |-> "me"]}

\* the reads that reach the view counter of a post
MaxViews == 3

Count(id, r) == IF r.status = 200 THEN [served EXCEPT ![id] = @ + 1] ELSE served

GetPost ==
    \E id \in PostIds \cup {GhostId} :
    \E q \in GetQueries(id) :
        LET r == getPost(id, q, users, posts) IN
            /\ id \in Stored(posts) => posts[id].views < MaxViews
            /\ users' = r.users
            /\ posts' = r.posts
            /\ served' = Count(id, r)
            /\ last' = Answered("GetPost", NoToken, id, q, Pass("-"), r)
            /\ UNCHANGED <<inflight, prior>>

NextViews == GetPost

SpecViews == Init /\ [][NextViews]_vars

(* The same route with its awaits as steps: a reader loads the post, other    *)
(* requests run, the reader saves.                                            *)

MaxReaders == 2

Readers == 1..MaxReaders

Busy == DOMAIN inflight

\* reads of post id that were served or are under way
Started(id) == served[id] + Cardinality({ r \in Busy : inflight[r].id = id })

GetPostLoad ==
    \E reader \in Readers \ Busy, id \in PostIds :
        LET r == getPostLoad(id, [id |-> id], users, posts) IN
            /\ Started(id) < MaxViews
            /\ r.status = 0
            /\ inflight' = [x \in Busy \cup {reader} |->
                               IF x = reader THEN [id |-> id, post |-> r.out.post]
                               ELSE inflight[x]]
            /\ UNCHANGED <<users, posts, last, served, prior>>

GetPostSave ==
    \E reader \in Busy :
        LET id == inflight[reader].id
            r  == getPostSave(id, inflight[reader].post, users, posts)
        IN  /\ users' = r.users
            /\ posts' = r.posts
            /\ served' = Count(id, r)
            /\ last' = Answered("GetPost", NoToken, id, [id |-> id], Pass("-"), r)
            /\ inflight' = [x \in Busy \ {reader} |-> inflight[x]]
            /\ UNCHANGED prior

NextConc == GetPostLoad \/ GetPostSave

SpecConc == Init /\ [][NextConc]_vars

-----------------------------------------------------------------------------
(* routes/posts: POST /:id/like, and models/Post: toggleLike.               *)

\* Array.prototype.indexOf on the likes of a document: 0-based, -1 when absent
indexOf(seq, x) ==
    IF \E i \in DOMAIN seq : seq[i] = x
    THEN (CHOOSE i \in DOMAIN seq : seq[i] = x /\ \A j \in 1..(i - 1) : seq[j] # x) - 1
    ELSE -1

\* seq.splice(index, 1) with a 0-based index
splice(seq, index) == SubSeq(seq, 1, index) \o SubSeq(seq, index + 2, Len(seq))

\* the like toggle turned into a plain push
toggleLikeAlwaysPush(doc, userId) == [doc EXCEPT !.likes = Append(@, userId)]

\* postSchema.methods.toggleLike, up to its save
toggleLike(doc, userId) ==
    LET likeIndex == indexOf(doc.likes, userId) IN
    IF likeIndex > -1
    THEN [doc EXCEPT !.likes = splice(@, likeIndex)]
    ELSE [doc EXCEPT !.likes = Append(@, userId)]

\* router.post('/:id/like') after auth
likePost(user, id, us, ps) ==
    IF id \notin Stored(ps) THEN Fail(404, "Post not found", us, ps)
    ELSE LET saved == save(ps, id, ps[id], toggleLike(ps[id], user)) IN
         IF saved.status # 0
         THEN Fail(saved.status, "save failed", us, ps)
         ELSE Outcome(200,
                      [message |-> "Post like updated", likeCount |-> Len(saved.doc.likes)],
                      us, saved.posts)

LikeCallers == {NoToken} \cup { [kind |-> "valid", userId |-> u] : u \in {"a", "b"} }

LikePost ==
    \E tok \in LikeCallers, id \in PostIds \cup {GhostId} :
        LET a == auth(tok, users)
            r == IF a.next THEN likePost(a.user, id, users, posts) ELSE Rejected(a)
        IN  /\ users' = r.users
            /\ posts' = r.posts
            /\ last' = Answered("LikePost", tok, id, <<>>, a, r)
            /\ prior' = last
            /\ UNCHANGED <<inflight, served>>

NextLikes == LikePost

SpecLikes == Init /\ [][NextLikes]_vars

-----------------------------------------------------------------------------
(* routes/users: DELETE /:id and PUT /:id.                                  *)

\* the cascade left out
deleteManySkipped(ps, author) == ps

\* Post.deleteMany({ author: id })
deleteMany(ps, author) == Remove(ps, { p \in Stored(ps) : ps[p].author = author })

\* the self-deletion test left out
IsSelfSkipped(user, id) == FALSE

\* req.user._id.toString() === id
IsSelf(user, id) == user = id

\* router.delete('/:id') after adminAuth
deleteUser(user, id, us, ps) ==
    IF IsSelf(user, id) THEN Fail(400, "You cannot delete your own account", us, ps)
    ELSE IF id \notin Stored(us) THEN Fail(404, "User not found", us, ps)
    ELSE Outcome(200, [message |-> "User deleted successfully"],
                 Remove(us, {id}), deleteMany(ps, id))

\* user.getPublicProfile(): the user document without its password
getPublicProfile(id, doc) ==
    [f \in ((DOMAIN doc) \ {"password"}) \cup {"_id"} |->
        IF f = "_id" THEN id ELSE doc[f]]

NameMax == 50

\* the validation chain of PUT /:id, after its trim() sanitizers
PutUserValid(body) ==
    /\ Has(body, "firstName") => Len(trim(body.firstName)) <= NameMax
    /\ Has(body, "role") => body.role \in Roles
    /\ Has(body, "isActive") => body.isActive \in BOOLEAN

\* router.put('/:id') without its guards of role and isActive
putUserUnguarded(user, id, body, us, ps) ==
    LET updates == sanitizeInput(body)
        admin   == us[user].role = "admin"
    IN
    IF ~PutUserValid(body) THEN Fail(400, "Validation failed", us, ps)
    ELSE IF ~admin /\ user # id
         THEN Fail(403, "You can only update your own profile", us, ps)
    ELSE IF id \notin Stored(us) THEN Fail(404, "User not found", us, ps)
    ELSE LET named == IF Has(updates, "firstName")
                      THEN [us[id] EXCEPT !.firstName = updates.firstName]
                      ELSE us[id]
         IN  Outcome(200, [user |-> getPublicProfile(id, named)], Put(us, id, named), ps)

\* router.put('/:id') after auth
putUser(user, id, body, us, ps) ==
    LET updates == sanitizeInput(body)
        admin   == us[user].role = "admin"
    IN
    IF ~PutUserValid(body) THEN Fail(400, "Validation failed", us, ps)
    ELSE IF ~admin /\ user # id
         THEN Fail(403, "You can only update your own profile", us, ps)
    ELSE IF Has(updates, "role") /\ ~admin
         THEN Fail(403, "Only admins can change user roles", us, ps)
    ELSE IF Has(updates, "isActive") /\ ~admin
         THEN Fail(403, "Only admins can change user active status", us, ps)
    ELSE IF id \notin Stored(us) THEN Fail(404, "User not found", us, ps)
    ELSE LET named  == IF Has(updates, "firstName")
                       THEN [us[id] EXCEPT !.firstName = updates.firstName]
                       ELSE us[id]
             roled  == IF Has(updates, "role") /\ admin
                       THEN [named EXCEPT !.role = updates.role]
                       ELSE named
             active == IF Has(updates, "isActive") /\ admin
                       THEN [roled EXCEPT !.isActive = updates.isActive]
                       ELSE roled
         IN  Outcome(200, [user |-> getPublicProfile(id, active)], Put(us, id, active), ps)

PutUserBodies ==
    {[isActive |-> FALSE],
     [isActive |-> TRUE],
     [role |-> "admin"]}

DeleteUser ==
    \E tok \in Tokens, id \in UserIds :
        LET a == adminAuth(tok, users)
            r == IF a.next THEN deleteUser(a.user, id, users, posts) ELSE Rejected(a)
        IN  /\ users' = r.users
            /\ posts' = r.posts
            /\ last' = Answered("DeleteUser", tok, id, <<>>, a, r)
            /\ UNCHANGED <<inflight, served, prior>>

PutUser ==
    \E tok \in Tokens, id \in UserIds, body \in PutUserBodies :
        LET a == auth(tok, users)
            r == IF a.next THEN putUser(a.user, id, body, users, posts) ELSE Rejected(a)
        IN  /\ users' = r.users
            /\ posts' = r.posts
            /\ last' = Answered("PutUser", tok, id, body, a, r)
            /\ UNCHANGED <<inflight, served, prior>>

TThree == <<"T","h","r","e","e">>

\* the posts of the user routes' runs: user a has two posts, user b has one
UserPostIds == {"p1", "p2", "p3"}

SeedUserPosts ==
    [p \in UserPostIds |->
        IF p = "p3" THEN SeedPost(TThree, "a", "archived", 3) ELSE SeedPosts[p]]

InitUsers ==
    /\ users = SeedUsers
    /\ posts = SeedUserPosts
    /\ last = [NoRequest EXCEPT !.prePosts = SeedUserPosts]
    /\ inflight = <<>>
    /\ served = [p \in PostIds |-> 0]
    /\ prior = NoRequest

NextUsers == DeleteUser \/ PutUser

SpecUsers == InitUsers /\ [][NextUsers]_vars

-----------------------------------------------------------------------------
(* routes/users: GET /.                                                     *)

\* .select('-password'): a user document as a response carries it
selectNoPassword(id, doc) ==
    [f \in ((DOMAIN doc) \ {"password"}) \cup {"_id"} |->
        IF f = "_id" THEN id ELSE doc[f]]

\* the validation chain of GET /users
ListUsersValid(q) ==
    /\ Has(q, "page") => isInt(q.page) /\ parseInt(q.page).val >= 1
    /\ Has(q, "limit") =>
           isInt(q.limit) /\ parseInt(q.limit).val >= 1 /\ parseInt(q.limit).val <= LimitMax
    /\ Has(q, "search") => Len(q.search) >= SearchMin /\ Len(q.search) <= SearchMax
    /\ Has(q, "role") => q.role \in Roles

\* the filter built by GET /users; the search terms of the model are
\* alphanumeric, for which $regex is a case-insensitive substring test
MatchesUser(user, q) ==
    /\ Has(q, "role") => user.role = q.role
    /\ Has(q, "search") =>
           \/ ContainsCI(user.username, q.search)
           \/ ContainsCI(user.email, q.search)
           \/ ContainsCI(user.firstName, q.search)

\* router.get('/') after adminAuth
listUsers(q, us, ps) ==
    IF ~ListUsersValid(q) THEN Fail(400, "Validation failed", us, ps)
    ELSE LET pg == validatePagination(Get(q, "page"), Get(q, "limit")) IN
         IF ~pg.ok THEN Fail(500, pg.error, us, ps)
         ELSE LET found == { u \in Stored(us) : MatchesUser(us[u], q) }
                  all   == SortNewestFirst(us, found)
                  shown == Page(all, (pg.page - 1) * pg.limit, pg.limit)
              IN  Outcome(200,
                          [users |-> [i \in DOMAIN shown |-> selectNoPassword(shown[i], us[shown[i]])],
                           page  |-> pg.page,
                           limit |-> pg.limit,
                           total |-> Cardinality(found)],
                          us, ps)

ListUserQueries ==
    {<<>>,
     [role |-> "user"],
     [role |-> "root"],
     [search |-> <<"O","B">>],
     [page |-> <<"2">>, limit |-> <<"2">>],
     [limit |-> <<"1","0","1">>]}

ListUsers ==
    \E tok \in Tokens, q \in ListUserQueries :
        LET a == adminAuth(tok, users)
            r == IF a.next THEN listUsers(q, users, posts) ELSE Rejected(a)
        IN  /\ users' = r.users
            /\ posts' = r.posts
            /\ last' = Answered("ListUsers", tok, "-", q, a, r)
            /\ UNCHANGED <<inflight, served, prior>>

NextAdmin == ListUsers \/ DeleteUser \/ PutUser

SpecAdmin == InitUsers /\ [][NextAdmin]_vars

-----------------------------------------------------------------------------
(* middleware/auth: optionalAuth.                                           *)

\* next() called by optionalAuth: no response, req.user as given ("-": unset)
Through(user) == [next |-> TRUE, calls |-> 1, status |-> 0, user |-> user, error |-> ""]

\* optionalAuth without its test of user.isActive
optionalAuthIgnoringActive(tok, us, lookupFails) ==
    IF tok.kind = "none" THEN Through("-")
    ELSE LET decoded == jwtVerify(tok) IN
         IF ~decoded.ok \/ lookupFails THEN Through("-")
         ELSE IF decoded.userId \in Stored(us) THEN Through(decoded.userId)
              ELSE Through("-")

\* optionalAuth(req, res, next); lookupFails: User.findById rejects. Every
\* exception of the try block ends in the catch block's next()
optionalAuth(tok, us, lookupFails) ==
    IF tok.kind = "none" THEN Through("-")
    ELSE LET decoded == jwtVerify(tok) IN
         IF ~decoded.ok THEN Through("-")
         ELSE IF lookupFails THEN Through("-")
         ELSE IF decoded.userId \in Stored(us) /\ us[decoded.userId].isActive
              THEN Through(decoded.userId)
              ELSE Through("-")

OptionalAuth ==
    \E tok \in Tokens, lookupFails \in BOOLEAN :
        LET a == optionalAuth(tok, users, lookupFails)
            r == Outcome(a.status, [nextCalls |-> a.calls], users, posts)
        IN  /\ users' = r.users
            /\ posts' = r.posts
            /\ last' = Answered("OptionalAuth", tok, "-", [lookupFails |-> lookupFails], a, r)
            /\ UNCHANGED <<inflight, served, prior>>

NextOptional == OptionalAuth \/ DeleteUser \/ PutUser

SpecOptional == InitUsers /\ [][NextOptional]_vars

-----------------------------------------------------------------------------
(* routes/users: GET /:id, GET /:id/posts, GET /:id/stats.                  *)

\* the validation chain of GET /users/:id: query('id').isMongoId()
GetUserValid(q) == Has(q, "id") /\ q.id \in MongoIds

\* req.user.role !== 'admin' && req.user._id.toString() !== id
NotSelfNorAdmin(user, id, us) == us[user].role # "admin" /\ user # id

\* router.get('/:id') after auth
getUser(user, id, q, us, ps) ==
    IF ~GetUserValid(q) THEN Fail(400, "Validation failed", us, ps)
    ELSE IF NotSelfNorAdmin(user, id, us) THEN Fail(403, "Access denied", us, ps)
    ELSE IF id \notin Stored(us) THEN Fail(404, "User not found", us, ps)
    ELSE Outcome(200, [user |-> selectNoPassword(id, us[id])], us, ps)

\* the validation chain of GET /users/:id/posts
UserPostsValid(q) ==
    /\ Has(q, "page") => isInt(q.page) /\ parseInt(q.page).val >= 1
    /\ Has(q, "limit") =>
           isInt(q.limit) /\ parseInt(q.limit).val >= 1 /\ parseInt(q.limit).val <= LimitMax
    /\ Has(q, "status") => q.status \in Statuses

\* router.get('/:id/posts') after auth
getUserPosts(user, id, q, us, ps) ==
    IF ~UserPostsValid(q) THEN Fail(400, "Validation failed", us, ps)
    ELSE IF NotSelfNorAdmin(user, id, us) THEN Fail(403, "Access denied", us, ps)
    ELSE IF id \notin Stored(us) THEN Fail(404, "User not found", us, ps)
    ELSE LET pg == validatePagination(Get(q, "page"), Get(q, "limit")) IN
         IF ~pg.ok THEN Fail(500, pg.error, us, ps)
         ELSE LET found == { p \in Stored(ps) :
                               /\ ps[p].author = id
                               /\ Has(q, "status") => ps[p].status = q.status }
                  all   == SortNewestFirst(ps, found)
              IN  Outcome(200,
                          [posts |-> Page(all, (pg.page - 1) * pg.limit, pg.limit),
                           page  |-> pg.page,
                           limit |-> pg.limit,
                           total |-> Cardinality(found)],
                          us, ps)

\* $sum of a field over the documents ids
RECURSIVE SumOver(_, _, _)
SumOver(ps, ids, f) ==
    IF ids = {} THEN 0
    ELSE LET p == CHOOSE x \in ids : TRUE IN
         (IF f = "likes" THEN Len(ps[p].likes) ELSE ps[p][f]) + SumOver(ps, ids \ {p}, f)

\* the $group stage of GET /users/:id/stats (the posts of the model carry no
\* comments, so totalComments is left out)
userStats(ps, id) ==
    LET mine == { p \in Stored(ps) : ps[p].author = id } IN
    [totalPosts     |-> Cardinality(mine),
     totalViews     |-> SumOver(ps, mine, "views"),
     totalLikes     |-> SumOver(ps, mine, "likes"),
     publishedPosts |-> Cardinality({ p \in mine : ps[p].status = "published" }),
     draftPosts     |-> Cardinality({ p \in mine : ps[p].status = "draft" }),
     archivedPosts  |-> Cardinality({ p \in mine : ps[p].status = "archived" })]

\* GET /:id/stats with User.findById ahead of the permission test
getUserStatsLookupFirst(user, id, us, ps) ==
    IF id \notin Stored(us) THEN Fail(404, "User not found", us, ps)
    ELSE IF NotSelfNorAdmin(user, id, us) THEN Fail(403, "Access denied", us, ps)
    ELSE Outcome(200, [user |-> getPublicProfile(id, us[id]), stats |-> userStats(ps, id)],
                 us, ps)

\* router.get('/:id/stats') after auth
getUserStats(user, id, us, ps) ==
    IF NotSelfNorAdmin(user, id, us) THEN Fail(403, "Access denied", us, ps)
    ELSE IF id \notin Stored(us) THEN Fail(404, "User not found", us, ps)
    ELSE Outcome(200, [user |-> getPublicProfile(id, us[id]), stats |-> userStats(ps, id)],
                 us, ps)

\* the callers and the targets of the requests to the self-or-admin routes
SelfCallers == {NoToken} \cup { [kind |-> "valid", userId |-> u] : u \in UserIds }

TargetIds == {"a", "adm", GhostId}

UserPostsQueries ==
    {<<>>, [status |-> "draft"], [status |-> "all"], [limit |-> <<"1">>], [page |-> <<"0">>]}

FirstName1 == <<"A","n","n","e">>

ProfileBodies ==
    {[firstName |-> FirstName1],
     [firstName |-> FirstName1, role |-> "admin"],
     [firstName |-> FirstName1, isActive |-> FALSE],
     [role |-> "root"]}

GetUser ==
    \E tok \in SelfCallers, id \in TargetIds :
      \E q \in GetQueries(id) :
        LET a == auth(tok, users)
            r == IF a.next THEN getUser(a.user, id, q, users, posts) ELSE Rejected(a)
        IN  /\ users' = r.users
            /\ posts' = r.posts
            /\ last' = Answered("GetUser", tok, id, q, a, r)
            /\ UNCHANGED <<inflight, served, prior>>

GetUserPosts ==
    \E tok \in SelfCallers, id \in TargetIds, q \in UserPostsQueries :
        LET a == auth(tok, users)
            r == IF a.next THEN getUserPosts(a.user, id, q, users, posts) ELSE Rejected(a)
        IN  /\ users' = r.users
            /\ posts' = r.posts
            /\ last' = Answered("GetUserPosts", tok, id, q, a, r)
            /\ UNCHANGED <<inflight, served, prior>>

GetUserStats ==
    \E tok \in SelfCallers, id \in TargetIds :
        LET a == auth(tok, users)
            r == IF a.next THEN getUserStats(a.user, id, users, posts) ELSE Rejected(a)
        IN  /\ users' = r.users
            /\ posts' = r.posts
            /\ last' = Answered("GetUserStats", tok, id, <<>>, a, r)
            /\ UNCHANGED <<inflight, served, prior>>

UpdateUser ==
    \E tok \in SelfCallers, id \in TargetIds, body \in ProfileBodies :
        LET a == auth(tok, users)
            r == IF a.next THEN putUser(a.user, id, body, users, posts) ELSE Rejected(a)
        IN  /\ users' = r.users
            /\ posts' = r.posts
            /\ last' = Answered("UpdateUser", tok, id, body, a, r)
            /\ UNCHANGED <<inflight, served, prior>>

NextSelf == GetUser \/ GetUserPosts \/ GetUserStats \/ UpdateUser

SpecSelf == InitUsers /\ [][NextSelf]_vars

-----------------------------------------------------------------------------
(* routes/auth: POST /register.                                             *)

UsernameMin == 3

UsernameMax == 30

PasswordMin == 6

\* the characters validator's isEmail accepts in the local part, as far as the
\* model uses them
EmailLocalChars == WordChars \cup {"=", ".", "-", "+"}

\* a host name: labels of letters, digits and hyphens separated by dots, the
\* last one of at least two letters
IsDomain(d) ==
    LET dots == { i \in DOMAIN d : d[i] = "." } IN
    /\ dots # {}
    /\ 1 \notin dots /\ Len(d) \notin dots
    /\ \A i \in dots : i + 1 \notin dots
    /\ \A i \in DOMAIN d : d[i] \in Range(LowerLetters) \cup Range(UpperLetters) \cup Range(Digits) \cup {"-", "."}
    /\ LET lastDot == CHOOSE i \in dots : \A j \in dots : j <= i IN
       /\ Len(d) - lastDot >= 2
       /\ \A i \in (lastDot + 1)..Len(d) : d[i] \in Range(LowerLetters) \cup Range(UpperLetters)

\* isEmail()
isEmail(s) ==
    LET ats == { i \in DOMAIN s : s[i] = "@" } IN
    /\ Cardinality(ats) = 1
    /\ LET at == CHOOSE i \in ats : TRUE IN
       /\ at > 1
       /\ \A i \in 1..(at - 1) : s[i] \in EmailLocalChars
       /\ IsDomain(SubSeq(s, at + 1, Len(s)))

\* normalizeEmail() for an address outside the providers it treats specially:
\* the whole address in lower case
normalizeEmail(s) == toLowerCase(s)

\* /^(?=.*[a-z])(?=.*[A-Z])(?=.*\d)/
IsStrongPassword(pw) ==
    /\ \E i \in DOMAIN pw : pw[i] \in Range(LowerLetters)
    /\ \E i \in DOMAIN pw : pw[i] \in Range(UpperLetters)
    /\ \E i \in DOMAIN pw : pw[i] \in Range(Digits)

\* the validation chain of POST /register on the submitted body
RegisterValid(body) ==
    /\ LET username == trim(Get(body, "username")) IN
       /\ Len(username) >= UsernameMin /\ Len(username) <= UsernameMax
       /\ \A i \in DOMAIN username : username[i] \in WordChars
    /\ Has(body, "email") /\ isEmail(trim(body.email))
    /\ Has(body, "password")
    /\ Len(body.password) >= PasswordMin
    /\ IsStrongPassword(body.password)
    /\ Has(body, "firstName") => Len(trim(body.firstName)) <= NameMax
    /\ Has(body, "lastName") => Len(trim(body.lastName)) <= NameMax

\* req.body after the sanitizers of the chain: trim() and normalizeEmail()
RegisterSanitized(body) ==
    [f \in DOMAIN body |->
        CASE f = "email"    -> normalizeEmail(trim(body[f]))
          [] f = "password" -> body[f]
          [] OTHER          -> trim(body[f])]

\* User.findOne({ $or: [{ email }, { username }] })
findOneUser(us, email, username) ==
    { u \in Stored(us) : us[u].email = email \/ us[u].username = username }

\* the identifiers new User() gives to the users it creates, in order
RegIdPool == <<"n1", "n2", "n3", "n4">>

Registered(us) == Stored(us) \cap Range(RegIdPool)

NewUserId(us) ==
    RegIdPool[CHOOSE k \in DOMAIN RegIdPool :
                  /\ RegIdPool[k] \notin Stored(us)
                  /\ \A j \in 1..(k - 1) : RegIdPool[j] \in Stored(us)]

\* Date.now of a document created after those stored
NextCreatedAt(us) ==
    1 + (CHOOSE n \in 0..(Cardinality(UserIds) + Len(RegIdPool)) :
             /\ \A u \in Stored(us) : us[u].createdAt <= n
             /\ \A m \in 0..(n - 1) : \E u \in Stored(us) : us[u].createdAt > m)

\* new User({ username, email, password, profile }) with the schema's defaults
newUser(fields) ==
    [role |-> "user", isActive |-> TRUE,
     firstName |-> IF Has(fields, "firstName") THEN fields.firstName ELSE <<>>,
     username |-> fields.username, email |-> fields.email,
     password |-> fields.password, createdAt |-> 0]

\* generateToken(user): a token that verifies and carries user._id as userId
generateToken(id) == [kind |-> "valid", userId |-> id]

\* the unique indexes of the users collection
DuplicateKey(us, doc) ==
    \E u \in Stored(us) : us[u].email = doc.email \/ us[u].username = doc.username

\* the handler up to the existence test: status 0 and the new document when it
\* goes on to save
registerCheck(body, us, ps) ==
    IF ~RegisterValid(body) THEN Fail(400, "Validation failed", us, ps)
    ELSE LET fields == sanitizeInput(RegisterSanitized(body)) IN
         IF findOneUser(us, fields.email, fields.username) # {}
         THEN Fail(400, "User with this email or username already exists", us, ps)
         ELSE Outcome(0, [doc |-> newUser(fields)], us, ps)

\* user.save() without the unique indexes
registerSaveUnindexed(doc, us, ps) ==
    LET id     == NewUserId(us)
        stored == [doc EXCEPT !.password = hashPassword(doc.password),
                              !.createdAt = NextCreatedAt(us)]
    IN  Outcome(201,
                [user |-> getPublicProfile(id, stored), token |-> generateToken(id)],
                Put(us, id, stored), ps)

\* user.save() and the response: a duplicate key error (code 11000) is
\* answered 400 by errorHandler
registerSave(doc, us, ps) ==
    IF DuplicateKey(us, doc) THEN Fail(400, "already exists", us, ps)
    ELSE LET id     == NewUserId(us)
             stored == [doc EXCEPT !.password = hashPassword(doc.password),
                                   !.createdAt = NextCreatedAt(us)]
         IN  Outcome(201,
                     [user |-> getPublicProfile(id, stored), token |-> generateToken(id)],
                     Put(us, id, stored), ps)

\* router.post('/register') with neither the existence test nor the indexes
registerUnchecked(body, us, ps) ==
    IF ~RegisterValid(body) THEN Fail(400, "Validation failed", us, ps)
    ELSE registerSaveUnindexed(newUser(sanitizeInput(RegisterSanitized(body))), us, ps)

\* router.post('/register')
register(body, us, ps) ==
    LET checked == registerCheck(body, us, ps) IN
    IF checked.status # 0 THEN checked
    ELSE registerSave(checked.out.doc, us, ps)

\* the submitted usernames, e-mail addresses and passwords
RegUsernames ==
    {<<"a","n","n">>, <<" ","a","n","n"," ">>, <<"c","y">>,
     <<"c","a","t">>, <<"d","a","n">>}

RegEmails ==
    {<<"a","n","n","@","x",".","i","o">>,
     <<"A","N","N","@","x",".","i","o">>,
     <<"c","a","t","@","x",".","i","o">>,
     <<"d","a","n","@","x",".","i","o">>,
     <<"o","n","e","=","a","n","n","@","x",".","i","o">>,
     <<"c","a","t">>}

RegPasswords == {SeedPassword, <<"p","a","s","s">>}

RegisterBodies ==
    { [username |-> u, email |-> e, password |-> pw] :
          u \in RegUsernames, e \in RegEmails, pw \in RegPasswords }

MaxRegistered == 2

Register ==
    \E body \in RegisterBodies :
        LET r == register(body, users, posts) IN
            /\ Cardinality(Registered(users)) < MaxRegistered
            /\ users' = r.users
            /\ posts' = r.posts
            /\ last' = Answered("Register", NoToken, "-", body, Through("-"), r)
            /\ UNCHANGED <<inflight, served, prior>>

NextRegister == Register

SpecRegister == Init /\ [][NextRegister]_vars

\* concurrent registrations: between the existence test of one request and its
\* save, other requests run
MaxClients == 2

Clients == 1..MaxClients

ConcBodies ==
    { [username |-> u, email |-> e, password |-> SeedPassword] :
          u \in {<<"c","a","t">>, <<"d","a","n">>},
          e \in {<<"c","a","t","@","x",".","i","o">>, <<"D","A","N","@","x",".","i","o">>} }

RegisterCheck ==
    \E client \in Clients \ Busy, body \in ConcBodies :
        LET r == registerCheck(body, users, posts) IN
            /\ Cardinality(Registered(users)) < MaxRegistered
            /\ IF r.status = 0
               THEN /\ inflight' = [x \in Busy \cup {client} |->
                                       IF x = client THEN [body |-> body, doc |-> r.out.doc]
                                       ELSE inflight[x]]
                    /\ UNCHANGED last
               ELSE /\ last' = Answered("Register", NoToken, "-", body, Through("-"), r)
                    /\ UNCHANGED inflight
            /\ UNCHANGED <<users, posts, served, prior>>

RegisterSave ==
    \E client \in Busy :
        LET r == registerSave(inflight[client].doc, users, posts) IN
            /\ users' = r.users
            /\ posts' = r.posts
            /\ last' = Answered("Register", NoToken, "-", inflight[client].body, Through("-"), r)
            /\ inflight' = [x \in Busy \ {client} |-> inflight[x]]
            /\ UNCHANGED <<served, prior>>

NextRegConc == RegisterCheck \/ RegisterSave

SpecRegConc == Init /\ [][NextRegConc]_vars

-----------------------------------------------------------------------------
(* routes/posts: POST /.                                                    *)

\* the validation chain of POST /, on the body its trim() sanitizers rewrote
CreatePostValid(body) ==
    /\ Len(Get(body, "title")) >= TitleMin
    /\ Has(body, "title") /\ Len(body.title) <= TitleMax
    /\ Has(body, "content")
    /\ Len(body.content) >= ContentMin /\ Len(body.content) <= ContentMax
    /\ Has(body, "category") /\ body.category \in MongoIds
    /\ Has(body, "status") => body.status \in Statuses
    /\ Has(body, "featured") => body.featured \in BOOLEAN

\* new Post({ title, content, author, category, status, tags, featured }) with
\* the defaults of the destructuring and of the schema; the handler passes no
\* slug, whatever the body holds
newPost(user, fields) ==
    [title |-> SetPath("title", fields.title), content |-> fields.content,
     author |-> user, category |-> fields.category,
     status |-> IF Has(fields, "status") THEN fields.status ELSE "draft",
     tags |-> <<>>,
     featured |-> IF Has(fields, "featured") THEN fields.featured ELSE FALSE,
     views |-> 0, likes |-> <<>>, createdAt |-> 0]

\* the schema's validators on a new document: every path, the required slug
\* included; they run before the pre('save') hook that derives the slug
SchemaValidNew(doc) ==
    /\ Len(doc.title) >= TitleMin /\ Len(doc.title) <= TitleMax
    /\ Len(doc.content) >= ContentMin /\ Len(doc.content) <= ContentMax
    /\ doc.status \in Statuses
    /\ Has(doc, "slug") /\ SlugMatch(doc.slug)

\* the identifiers new Post() gives to the posts it creates, in order
PostIdPool == <<"q1", "q2">>

NewPostId(ps) ==
    PostIdPool[CHOOSE k \in DOMAIN PostIdPool :
                   /\ PostIdPool[k] \notin Stored(ps)
                   /\ \A j \in 1..(k - 1) : PostIdPool[j] \in Stored(ps)]

\* post.save() of a new document: validation, the pre-save hook, the unique
\* index on slug, the insert
saveNew(ps, doc) ==
    IF ~SchemaValidNew(doc)
    THEN [status |-> 400, posts |-> ps, doc |-> doc]
    ELSE LET slugged == [f \in (DOMAIN doc) \cup {"slug"} |->
                            IF f = "slug" THEN generateSlug(doc.title) ELSE doc[f]]
         IN  IF \E q \in Stored(ps) : ps[q].slug = slugged.slug
             THEN [status |-> 400, posts |-> ps, doc |-> slugged]
             ELSE [status |-> 0, posts |-> Put(ps, NewPostId(ps), slugged), doc |-> slugged]

\* router.post('/') after auth
createPost(user, body, us, ps) ==
    LET trimmed == PutPostTrim(body)
        fields  == sanitizeInput(trimmed)
    IN
    IF ~CreatePostValid(trimmed) THEN Fail(400, "Validation failed", us, ps)
    ELSE IF fields.category \notin CategoryIds THEN Fail(404, "Category not found", us, ps)
    ELSE LET saved == saveNew(ps, newPost(user, fields)) IN
         IF saved.status # 0
         THEN Fail(saved.status, "Slug is required", us, ps)
         ELSE Outcome(201, [post |-> saved.doc], us, saved.posts)

TNew == <<"N","e","w"," ","P","o","s","t">>

SlugMy == <<"m","y">>

CreateBodies ==
    {[title |-> TNew, content |-> Content1, category |-> "c1"],
     [title |-> TNew, content |-> Content1, category |-> "c2", status |-> "published"],
     [title |-> TNew, content |-> Content1, category |-> "c1", slug |-> SlugMy],
     [title |-> TNew, content |-> Content1, category |-> GhostId],
     [title |-> TShort, content |-> Content1, category |-> GhostId],
     [title |-> TNew, category |-> "c1"]}

EditBodies ==
    {[title |-> TOneBang],
     [title |-> TNew],
     [slug |-> SlugMy],
     [title |-> TNew, slug |-> SlugMy],
     [slug |-> <<"M","y","!">>],
     [content |-> Content2]}

WriteCallers == {NoToken, [kind |-> "valid", userId |-> "a"], [kind |-> "valid", userId |-> "b"]}

CreatePost ==
    \E tok \in WriteCallers, body \in CreateBodies :
        LET a == auth(tok, users)
            r == IF a.next THEN createPost(a.user, body, users, posts) ELSE Rejected(a)
        IN  /\ users' = r.users
            /\ posts' = r.posts
            /\ last' = Answered("CreatePost", tok, "-", body, a, r)
            /\ UNCHANGED <<inflight, served, prior>>

EditPost ==
    \E tok \in WriteCallers, id \in PostIds, body \in EditBodies :
        LET a == auth(tok, users)
            r == IF a.next THEN putPost(a.user, id, body, users, posts) ELSE Rejected(a)
        IN  /\ users' = r.users
            /\ posts' = r.posts
            /\ last' = Answered("EditPost", tok, id, body, a, r)
            /\ UNCHANGED <<inflight, served, prior>>

NextWrite == CreatePost \/ EditPost

SpecWrite == Init /\ [][NextWrite]_vars

-----------------------------------------------------------------------------
(* utils/validation: validatePagination and sanitizeInput called directly.  *)

\* the arguments of the calls: numbers and numeric strings as parseInt reads
\* them, other strings, and undefined
PaginationArgs ==
    {Undefined, <<"0">>, <<"1">>, <<"2">>, <<"-","1">>, <<"1","0">>, <<"2","0">>,
     <<"1","0","0">>, <<"1","0","1">>, <<"a","b">>, <<"1","x">>}

\* a call of a function of the utilities: its arguments and what it returns
Called(op, args, result) ==
    [op |-> op, tok |-> NoToken, id |-> "-", req |-> args,
     status |-> IF result.ok THEN 0 ELSE 500,
     user |-> "-", ran |-> TRUE, out |-> result,
     prePosts |-> posts, preUsers |-> users]

ValidatePagination ==
    \E page \in PaginationArgs, limit \in PaginationArgs :
        /\ last' = Called("ValidatePagination", [page |-> page, limit |-> limit],
                          validatePagination(page, limit))
        /\ UNCHANGED <<users, posts, inflight, served, prior>>

\* the strings given to sanitizeInput: a script block around inner followed by
\* text, and strings without a script block
ScriptTagOpen == <<"<","s","c","r","i","p","t",">">>

ScriptTagClose == <<"<","/","s","c","r","i","p","t",">">>

InnerTexts == {<<>>, <<"x">>, <<"a","(","1",")">>, <<"a"," ","b">>}

AfterTexts == {<<>>, <<"H","i">>, <<"o","k"," ","g","o">>, <<"J","o","h","n">>}

PlainTexts ==
    {<<" ","h","i"," ">>, <<"j","a","v","a","s","c","r","i","p","t",":","x">>,
     <<"o","n","c","l","i","c","k","=","a">>, <<"a","<","b",">">>}

SanitizeInput ==
    \/ \E inner \in InnerTexts, after \in AfterTexts, asObject \in BOOLEAN :
          LET input == ScriptTagOpen \o inner \o ScriptTagClose \o after
              value == IF asObject
                       THEN sanitizeInput([title |-> input, featured |-> TRUE]).title
                       ELSE sanitizeString(input)
          IN  /\ last' = Called("SanitizeInput",
                                [form |-> "script", inner |-> inner, after |-> after,
                                 asObject |-> asObject],
                                [ok |-> TRUE, value |-> value])
              /\ UNCHANGED <<users, posts, inflight, served, prior>>
    \/ \E input \in PlainTexts :
          /\ last' = Called("SanitizeInput",
                            [form |-> "plain", inner |-> <<>>, after |-> input,
                             asObject |-> FALSE],
                            [ok |-> TRUE, value |-> sanitizeString(input)])
          /\ UNCHANGED <<users, posts, inflight, served, prior>>

\* jwt.decode reads the payload without testing signature or expiry; for a
\* string that is not three dot-separated base64url parts it returns null, it
\* does not throw
jwtDecode(tok) ==
    IF tok.kind \in {"valid", "expired", "forged"}
    THEN [threw |-> FALSE, isNull |-> FALSE, userId |-> tok.userId]
    ELSE [threw |-> FALSE, isNull |-> TRUE, userId |-> "-"]

\* utils/auth decodeToken: returns what jwt.decode returns, rethrows what it throws
decodeToken(tok) ==
    LET decoded == jwtDecode(tok)
    IN  [ok |-> ~decoded.threw, isNull |-> decoded.isNull, userId |-> decoded.userId]

DecodeToken ==
    \E tok \in Tokens \ {NoToken} :
        /\ last' = Called("DecodeToken", tok, decodeToken(tok))
        /\ UNCHANGED <<users, posts, inflight, served, prior>>

NextValidation == ValidatePagination \/ SanitizeInput \/ DecodeToken

SpecValidation == Init /\ [][NextValidation]_vars

-----------------------------------------------------------------------------
(* routes/posts: GET / over two published posts whose view counters differ.  *)

PublishedPosts ==
    [p \in PostIds |->
        IF p = "p1" THEN SeedPost(TOne, "a", "published", 1)
                    ELSE SeedPost(TTwo, "b", "published", 2)]

InitSorted ==
    /\ users = SeedUsers
    /\ posts = PublishedPosts
    /\ last = [NoRequest EXCEPT !.prePosts = PublishedPosts]
    /\ inflight = <<>>
    /\ served = [p \in PostIds |-> 0]
    /\ prior = NoRequest

NextSorted == GetPost \/ ListPosts

SpecSorted == InitSorted /\ [][NextSorted]_vars

-----------------------------------------------------------------------------
(* The other paginated routes: GET /users/:id/profile and GET                *)
(* /posts/author/:authorId, and all five paginated routes together.          *)

\* router.get('/:id/profile'): no middleware and no validation chain; an Error
\* thrown by validatePagination reaches errorHandler without a statusCode
getUserProfile(id, q, us, ps) ==
    IF id \notin Stored(us) THEN Fail(404, "User not found", us, ps)
    ELSE LET pg == validatePagination(Get(q, "page"), Get(q, "limit")) IN
         IF ~pg.ok THEN Fail(500, pg.error, us, ps)
         ELSE LET found == { p \in Stored(ps) :
                               ps[p].author = id /\ ps[p].status = "published" }
                  all   == SortNewestFirst(ps, found)
              IN  Outcome(200,
                          [user       |-> selectNoPassword(id, us[id]),
                           posts      |-> Page(all, (pg.page - 1) * pg.limit, pg.limit),
                           totalPosts |-> Cardinality(found),
                           totalViews |-> SumOver(ps, found, "views"),
                           totalLikes |-> SumOver(ps, found, "likes"),
                           page       |-> pg.page,
                           limit      |-> pg.limit],
                          us, ps)

\* the validation chain of GET /posts/author/:authorId
AuthorPostsValid(q) ==
    /\ Has(q, "page") => isInt(q.page) /\ parseInt(q.page).val >= 1
    /\ Has(q, "limit") =>
           isInt(q.limit) /\ parseInt(q.limit).val >= 1 /\ parseInt(q.limit).val <= LimitMax

\* router.get('/author/:authorId')
getPostsByAuthor(authorId, q, us, ps) ==
    IF ~AuthorPostsValid(q) THEN Fail(400, "Validation failed", us, ps)
    ELSE LET pg == validatePagination(Get(q, "page"), Get(q, "limit")) IN
         IF ~pg.ok THEN Fail(500, pg.error, us, ps)
         ELSE LET found == { p \in Stored(ps) :
                               ps[p].author = authorId /\ ps[p].status = "published" }
                  all   == SortNewestFirst(ps, found)
              IN  Outcome(200,
                          [posts |-> Page(all, (pg.page - 1) * pg.limit, pg.limit),
                           page  |-> pg.page,
                           limit |-> pg.limit,
                           total |-> Cardinality(found)],
                          us, ps)

PageQueries ==
    {<<>>,
     [page |-> <<"2">>, limit |-> <<"1">>],
     [page |-> <<"0">>],
     [page |-> <<"-","1">>],
     [limit |-> <<"0">>],
     [limit |-> <<"1","0","1">>]}

GetUserProfile ==
    \E tok \in SelfCallers, id \in TargetIds, q \in PageQueries :
        LET r == getUserProfile(id, q, users, posts)
        IN  /\ users' = r.users
            /\ posts' = r.posts
            /\ last' = Answered("GetUserProfile", tok, id, q, Pass("-"), r)
            /\ UNCHANGED <<inflight, served, prior>>

GetPostsByAuthor ==
    \E tok \in SelfCallers, id \in TargetIds, q \in PageQueries :
        LET r == getPostsByAuthor(id, q, users, posts)
        IN  /\ users' = r.users
            /\ posts' = r.posts
            /\ last' = Answered("GetPostsByAuthor", tok, id, q, Pass("-"), r)
            /\ UNCHANGED <<inflight, served, prior>>

NextPaged == ListPosts \/ GetPostsByAuthor \/ ListUsers \/ GetUserProfile \/ GetUserPosts

SpecPaged == InitUsers /\ [][NextPaged]_vars

-----------------------------------------------------------------------------
(* middleware/auth: what auth, adminAuth and checkOwnership do with res and  *)
(* next. responses: the statuses sent with res.status(...).json(...), in     *)
(* order; nexts: how often next was called; user: req.user ("-": unset).     *)

Responds(status) == [responses |-> <<status>>, nexts |-> 0, user |-> "-"]

CallsNext(user) == [responses |-> <<>>, nexts |-> 1, user |-> user]

\* auth(req, res, next); lookupFails: User.findById rejects, which the catch
\* block answers with 500 as it does every error that is not a token error
authResponds(tok, us, lookupFails) ==
    IF tok.kind = "none" THEN Responds(401)
    ELSE LET decoded == jwtVerify(tok) IN
         IF ~decoded.ok
         THEN IF decoded.name = "JsonWebTokenError" THEN Responds(401)
              ELSE IF decoded.name = "TokenExpiredError" THEN Responds(401)
              ELSE Responds(500)
         ELSE IF lookupFails THEN Responds(500)
         ELSE IF decoded.userId \notin Stored(us) THEN Responds(401)
         ELSE IF ~us[decoded.userId].isActive THEN Responds(401)
         ELSE CallsNext(decoded.userId)

\* the callback adminAuth hands to auth as its next, run once for every call
\* auth makes of it
AfterAuth(first, callback) ==
    IF first.nexts = 0 THEN first
    ELSE [responses |-> first.responses \o callback.responses,
          nexts     |-> first.nexts * callback.nexts,
          user      |-> first.user]

\* adminAuth whose callback goes on after res.status(403)
adminAuthNoReturn(tok, us, lookupFails) ==
    LET first == authResponds(tok, us, lookupFails) IN
    AfterAuth(first,
              IF first.nexts > 0 /\ us[first.user].role # "admin"
              THEN [responses |-> <<403>>, nexts |-> 1, user |-> first.user]
              ELSE CallsNext(first.user))

\* adminAuth(req, res, next): auth with a callback that answers 403 or calls next
adminAuthResponds(tok, us, lookupFails) ==
    LET first == authResponds(tok, us, lookupFails) IN
    AfterAuth(first,
              IF first.nexts > 0 /\ us[first.user].role # "admin"
              THEN Responds(403)
              ELSE CallsNext(first.user))

\* checkOwnership(Post, 'author'); user "-": req.user is unset, so reading
\* req.user._id throws; an id that is no ObjectId makes findById reject
checkOwnershipResponds(user, id, ps, lookupFails) ==
    IF lookupFails \/ id \notin MongoIds THEN Responds(500)
    ELSE IF id \notin Stored(ps) THEN Responds(404)
    ELSE IF user = "-" THEN Responds(500)
    ELSE IF ps[id].author # user THEN Responds(403)
    ELSE CallsNext(user)

Guarded(op, tok, id, lookupFails, g) ==
    [op |-> op, tok |-> tok, id |-> id, req |-> [lookupFails |-> lookupFails],
     status |-> IF g.responses = <<>> THEN 0 ELSE g.responses[1],
     user |-> g.user, ran |-> g.nexts > 0, out |-> g,
     prePosts |-> posts, preUsers |-> users]

AuthRequest ==
    \E tok \in Tokens, lookupFails \in BOOLEAN :
        /\ last' = Guarded("AuthRequest", tok, "-", lookupFails,
                           authResponds(tok, users, lookupFails))
        /\ UNCHANGED <<users, posts, inflight, served, prior>>

AdminAuthRequest ==
    \E tok \in Tokens, lookupFails \in BOOLEAN :
        /\ last' = Guarded("AdminAuthRequest", tok, "-", lookupFails,
                           adminAuthResponds(tok, users, lookupFails))
        /\ UNCHANGED <<users, posts, inflight, served, prior>>

CheckOwnershipRequest ==
    \E user \in UserIds \cup {"-"}, id \in UserPostIds \cup {GhostId, "me"},
       lookupFails \in BOOLEAN :
        /\ last' = Guarded("CheckOwnershipRequest", NoToken, id, lookupFails,
                           checkOwnershipResponds(user, id, posts, lookupFails))
        /\ UNCHANGED <<users, posts, inflight, served, prior>>

NextGuards == AuthRequest \/ AdminAuthRequest \/ CheckOwnershipRequest \/ DeleteUser \/ PutUser

SpecGuards == InitUsers /\ [][NextGuards]_vars

-----------------------------------------------------------------------------
(* routes/posts: POST /:id/like with its awaits as steps. A client loads the *)
(* post, other requests run, the client toggles its copy and saves it. In    *)
(* this specification served[id] is the version key __v of the stored post.  *)

MaxLikes == 3

\* the update post.save() sends after toggleLike. likes.push is sent as $push
\* of the new element, without a test of __v; likes.splice is sent as $set of
\* the whole array and matches only the version that was loaded (a
\* VersionError otherwise, which errorHandler answers with 500). Both
\* increment __v.
saveLikes(ps, id, loaded, version, doc, versions) ==
    IF id \notin Stored(ps)
    THEN [status |-> 500, posts |-> ps, versions |-> versions]
    ELSE IF Len(doc.likes) > Len(loaded.likes)
    THEN [status   |-> 0,
          posts    |-> Put(ps, id, [ps[id] EXCEPT !.likes = Append(@, doc.likes[Len(doc.likes)])]),
          versions |-> [versions EXCEPT ![id] = @ + 1]]
    ELSE IF versions[id] # version
    THEN [status |-> 500, posts |-> ps, versions |-> versions]
    ELSE [status   |-> 0,
          posts    |-> Put(ps, id, [ps[id] EXCEPT !.likes = doc.likes]),
          versions |-> [versions EXCEPT ![id] = @ + 1]]

\* router.post('/:id/like') from toggleLike on: the response carries the
\* likeCount of the client's copy
likePostSave(user, id, loaded, version, us, ps, versions) ==
    LET doc   == toggleLike(loaded, user)
        saved == saveLikes(ps, id, loaded, version, doc, versions)
    IN  IF saved.status # 0
        THEN [status |-> saved.status, out |-> [error |-> "save failed"],
              users |-> us, posts |-> ps, versions |-> versions]
        ELSE [status |-> 200,
              out |-> [message |-> "Post like updated", likeCount |-> Len(doc.likes)],
              users |-> us, posts |-> saved.posts, versions |-> saved.versions]

LikeLoad ==
    \E client \in Clients \ Busy, tok \in LikeCallers, id \in PostIds :
        LET a == auth(tok, users) IN
            /\ a.next
            /\ id \in Stored(posts)
            /\ Started(id) < MaxLikes
            /\ inflight' = [x \in Busy \cup {client} |->
                               IF x = client
                               THEN [id |-> id, tok |-> tok, user |-> a.user,
                                     post |-> posts[id], version |-> served[id]]
                               ELSE inflight[x]]
            /\ UNCHANGED <<users, posts, last, served, prior>>

LikeSave ==
    \E client \in Busy :
        LET c == inflight[client]
            r == likePostSave(c.user, c.id, c.post, c.version, users, posts, served)
        IN  /\ users' = r.users
            /\ posts' = r.posts
            /\ served' = r.versions
            /\ last' = Answered("LikePost", c.tok, c.id, <<>>, Pass(c.user), r)
            /\ prior' = last
            /\ inflight' = [x \in Busy \ {client} |-> inflight[x]]

NextLikeConc == LikeLoad \/ LikeSave

SpecLikeConc == Init /\ [][NextLikeConc]_vars

-----------------------------------------------------------------------------
(* DELETE /users/:id and POST /posts with their awaits as steps, next to PUT *)
(* /posts/:id with an author in its body.                                    *)

\* router.delete('/:id') of routes/users up to User.findById: status 0 when it
\* goes on to delete
deleteUserCheck(user, id, us, ps) ==
    IF IsSelf(user, id) THEN Fail(400, "You cannot delete your own account", us, ps)
    ELSE IF id \notin Stored(us) THEN Fail(404, "User not found", us, ps)
    ELSE Outcome(0, <<>>, us, ps)

\* router.post('/') up to new Post(...): status 0 and the document when it
\* goes on to save
createPostCheck(user, body, us, ps) ==
    LET trimmed == PutPostTrim(body)
        fields  == sanitizeInput(trimmed)
    IN
    IF ~CreatePostValid(trimmed) THEN Fail(400, "Validation failed", us, ps)
    ELSE IF fields.category \notin CategoryIds THEN Fail(404, "Category not found", us, ps)
    ELSE Outcome(0, [doc |-> newPost(user, fields)], us, ps)

\* await post.save() and the response
createPostSave(doc, us, ps) ==
    LET saved == saveNew(ps, doc) IN
    IF saved.status # 0
    THEN Fail(saved.status, "Slug is required", us, ps)
    ELSE Outcome(201, [post |-> saved.doc], us, saved.posts)

Waiting(client, entry) ==
    [x \in Busy \cup {client} |-> IF x = client THEN entry ELSE inflight[x]]

Done(client) == [x \in Busy \ {client} |-> inflight[x]]

OrphanCallers == { [kind |-> "valid", userId |-> u] : u \in UserIds }

DeleteUserCheck ==
    \E client \in Clients \ Busy, tok \in OrphanCallers, id \in {"a", "b"} :
        LET a == adminAuth(tok, users)
            r == IF a.next THEN deleteUserCheck(a.user, id, users, posts) ELSE Rejected(a)
        IN  /\ IF r.status = 0
               THEN /\ inflight' = Waiting(client, [op |-> "delete", step |-> "posts",
                                                    tok |-> tok, id |-> id, user |-> a.user])
                    /\ UNCHANGED last
               ELSE /\ last' = Answered("DeleteUser", tok, id, <<>>, a, r)
                    /\ UNCHANGED inflight
            /\ UNCHANGED <<users, posts, served, prior>>

DeleteUserPosts ==
    \E client \in Busy :
        /\ inflight[client].op = "delete"
        /\ inflight[client].step = "posts"
        /\ posts' = deleteMany(posts, inflight[client].id)
        /\ inflight' = [inflight EXCEPT ![client].step = "user"]
        /\ UNCHANGED <<users, last, served, prior>>

DeleteUserRemove ==
    \E client \in Busy :
        LET c == inflight[client]
            r == Outcome(200, [message |-> "User deleted successfully"],
                         Remove(users, {c.id}), posts)
        IN  /\ c.op = "delete"
            /\ c.step = "user"
            /\ users' = r.users
            /\ posts' = r.posts
            /\ last' = Answered("DeleteUser", c.tok, c.id, <<>>, Pass(c.user), r)
            /\ inflight' = Done(client)
            /\ UNCHANGED <<served, prior>>

OrphanBodies ==
    {[title |-> TNew, content |-> Content1, category |-> "c1"],
     [title |-> TNew, content |-> Content1, category |-> GhostId]}

CreatePostCheck ==
    \E client \in Clients \ Busy, tok \in OrphanCallers, body \in OrphanBodies :
        LET a == auth(tok, users)
            r == IF a.next THEN createPostCheck(a.user, body, users, posts) ELSE Rejected(a)
        IN  /\ IF r.status = 0
               THEN /\ inflight' = Waiting(client, [op |-> "create", step |-> "save",
                                                    tok |-> tok, id |-> "-", user |-> a.user,
                                                    body |-> body, doc |-> r.out.doc])
                    /\ UNCHANGED last
               ELSE /\ last' = Answered("CreatePost", tok, "-", body, a, r)
                    /\ UNCHANGED inflight
            /\ UNCHANGED <<users, posts, served, prior>>

CreatePostSave ==
    \E client \in Busy :
        LET c == inflight[client]
            r == createPostSave(c.doc, users, posts)
        IN  /\ c.op = "create"
            /\ users' = r.users
            /\ posts' = r.posts
            /\ last' = Answered("CreatePost", c.tok, "-", c.body, Pass(c.user), r)
            /\ inflight' = Done(client)
            /\ UNCHANGED <<served, prior>>

AuthorBodies == {[author |-> GhostId], [author |-> "a"]}

PutPostAuthor ==
    \E tok \in OrphanCallers, id \in PostIds, body \in AuthorBodies :
        LET a == auth(tok, users)
            r == IF a.next THEN putPost(a.user, id, body, users, posts) ELSE Rejected(a)
        IN  /\ users' = r.users
            /\ posts' = r.posts
            /\ last' = Answered("PutPost", tok, id, body, a, r)
            /\ UNCHANGED <<inflight, served, prior>>

NextOrphans ==
    \/ DeleteUserCheck \/ DeleteUserPosts \/ DeleteUserRemove
    \/ CreatePostCheck \/ CreatePostSave
    \/ PutPostAuthor

SpecOrphans == Init /\ [][NextOrphans]_vars

-----------------------------------------------------------------------------
(* routes/posts: GET /slug/:slug, and the two reads of a single post.        *)

\* router.get('/slug/:slug'): Post.findOne({ slug, status: 'published' }),
\* incrementViews, the response
getPostBySlug(slug, us, ps) ==
    LET found == { p \in Stored(ps) : ps[p].slug = slug /\ ps[p].status = "published" } IN
    IF found = {} THEN Fail(404, "Post not found", us, ps)
    ELSE LET id    == CHOOSE p \in found : TRUE
             saved == save(ps, id, ps[id], incrementViews(ps[id]))
         IN  IF saved.status # 0
             THEN Fail(saved.status, "save failed", us, ps)
             ELSE Outcome(200, [post |-> saved.doc], us, saved.posts)

Slugs == { SeedPosts[p].slug : p \in PostIds } \cup { <<"n","o","n","e">> }

GetPostBySlug ==
    \E slug \in Slugs :
        LET r == getPostBySlug(slug, users, posts) IN
            /\ \A p \in Stored(posts) : posts[p].slug = slug => posts[p].views < MaxViews
            /\ users' = r.users
            /\ posts' = r.posts
            /\ last' = Answered("GetPostBySlug", NoToken, "-", [slug |-> slug], Pass("-"), r)
            /\ UNCHANGED <<inflight, served, prior>>

NextReads == GetPost \/ GetPostBySlug

SpecReads == Init /\ [][NextReads]_vars

-----------------------------------------------------------------------------
(* Properties of the post routes, checked under Spec.                       *)

\* the last request was op, sent with a token that auth accepted
Authenticated(op) == last.op = op /\ last.ran

CallerIsAdmin == last.preUsers[last.user].role = "admin"

TargetExisted == last.id \in Stored(last.prePosts)

\* C1: when an authenticated caller who is neither the author of an existing
\* post nor an admin sends PUT /posts/:id, the stored posts are unchanged and
\* the response is 403 (400 when the body does not pass the validation chain,
\* which runs before the handler).
C1_NonOwnerPutForbidden ==
    (/\ Authenticated("PutPost")
     /\ TargetExisted
     /\ last.prePosts[last.id].author # last.user
     /\ ~CallerIsAdmin)
    => /\ posts = last.prePosts
       /\ last.status = IF PutPostValid(PutPostTrim(last.req)) THEN 403 ELSE 400

\* user b was refused the update of a post of user a
C1_Witness ==
    /\ Authenticated("PutPost")
    /\ last.user = "b"
    /\ TargetExisted
    /\ last.prePosts[last.id].author = "a"
    /\ last.status = 403
    /\ Has(last.req, "title")

\* what the same PUT would do if the post's author sent it
AsAuthor == putPost(last.prePosts[last.id].author, last.id, last.req,
                    last.preUsers, last.prePosts)

\* C2: an admin who is not the author of an existing post may update it and
\* delete it: a PUT that the author could make returns 200 and is stored, a
\* DELETE returns 200 and removes the post.
C2_AdminMayMutate ==
    (/\ last.op \in {"PutPost", "DeletePost"}
     /\ last.ran
     /\ TargetExisted
     /\ CallerIsAdmin
     /\ last.prePosts[last.id].author # last.user)
    => IF last.op = "DeletePost"
       THEN last.status = 200 /\ last.id \notin Stored(posts)
       ELSE AsAuthor.status = 200 => last.status = 200 /\ posts = AsAuthor.posts

\* C3: GET /posts?status=draft without a valid token is answered 403 and
\* returns no draft post.
C3_DraftListNeedsAuth ==
    (/\ last.op = "ListPosts"
     /\ last.tok.kind # "valid"
     /\ Has(last.req, "status")
     /\ last.req.status = "draft")
    => /\ last.status = 403
       /\ ~Has(last.out, "posts")

\* the identifiers of the posts the last GET /posts returned
Returned == IF Has(last.out, "posts") THEN Range(last.out.posts) ELSE {}

\* C4: GET /posts without a status filter returns only published posts,
\* whoever the caller is.
C4_DefaultPublishedOnly ==
    (last.op = "ListPosts" /\ ~Has(last.req, "status"))
    => \A p \in Returned : p \in Stored(posts) /\ posts[p].status = "published"

\* user b, who has a post that is not published, listed the posts without a
\* status filter and got a post back
C4_Witness ==
    /\ last.op = "ListPosts"
    /\ ~Has(last.req, "status")
    /\ last.tok = [kind |-> "valid", userId |-> "b"]
    /\ \E p \in Stored(posts) : posts[p].author = "b" /\ posts[p].status # "published"
    /\ \E p \in Stored(posts) : posts[p].status = "archived"
    /\ Returned # {}

-----------------------------------------------------------------------------
(* Properties of the view counter, under SpecViews and SpecConc.            *)

\* C5: every GET /posts/:id on an existing published post returns 200, stores
\* a view count one higher and returns the post with that count.
C5_ReadCountsOneView ==
    (last.op = "GetPost" /\ TargetExisted /\ last.prePosts[last.id].status = "published")
    => /\ last.status = 200
       /\ posts[last.id].views = last.prePosts[last.id].views + 1
       /\ last.out.post.views = posts[last.id].views

\* C6: once every read under way has been answered, the stored view count of
\* each post is its initial count, 0, plus the number of reads served: no
\* interleaving of concurrent reads loses an increment.
C6_NoLostView ==
    Busy = {} => \A p \in PostIds : posts[p].views = served[p]

-----------------------------------------------------------------------------
(* Properties of the like toggle, under SpecLikes.                          *)

Likers(ps, id) == Range(ps[id].likes)

\* the last two requests were like toggles of one user on one post, both
\* answered 200
TwoToggles ==
    /\ last.op = "LikePost" /\ last.status = 200
    /\ prior.op = "LikePost" /\ prior.status = 200
    /\ prior.user = last.user
    /\ prior.id = last.id

\* C7: two successive POST /posts/:id/like requests of one user leave the set
\* of users who like the post as it was before the first: the first flips the
\* user's membership, the second flips it back, nobody else is added or removed.
C7_DoubleToggleRestores ==
    TwoToggles =>
        LET before == Likers(prior.prePosts, last.id)
            middle == Likers(last.prePosts, last.id)
            after  == Likers(posts, last.id)
        IN  /\ after = before
            /\ (last.user \in middle) = (last.user \notin before)
            /\ middle \ {last.user} = before \ {last.user}

\* a user who liked a post that another user likes too toggled twice
C7_Witness ==
    /\ TwoToggles
    /\ last.user \in Likers(prior.prePosts, last.id)
    /\ Likers(prior.prePosts, last.id) \ {last.user} # {}
    /\ last.out.likeCount = 2

-----------------------------------------------------------------------------
(* Properties of the user routes and of auth, under SpecUsers.              *)

\* an admin asked for the deletion of the stored user last.id
AdminDeletes == Authenticated("DeleteUser") /\ last.id \in Stored(last.preUsers)

PostsOf(ps, author) == { p \in Stored(ps) : ps[p].author = author }

\* C8: when an admin deletes another, existing user the response is 200, the
\* user is no longer stored, no post of that user remains, and the other users
\* and the posts of other authors are as they were.
C8_DeleteUserCascades ==
    (AdminDeletes /\ last.id # last.user)
    => /\ last.status = 200
       /\ last.id \notin Stored(users)
       /\ PostsOf(posts, last.id) = {}
       /\ users = Remove(last.preUsers, {last.id})
       /\ posts = Remove(last.prePosts, PostsOf(last.prePosts, last.id))

\* an admin deleted user a, who had a post that was not published among two
\* posts, while another author's post was stored
C8_Witness ==
    /\ AdminDeletes
    /\ last.id = "a"
    /\ last.status = 200
    /\ Cardinality(PostsOf(last.prePosts, "a")) = 2
    /\ \E p \in PostsOf(last.prePosts, "a") : last.prePosts[p].status # "published"
    /\ Stored(posts) # {}

\* C9: DELETE /users/:id with the calling admin's own id is answered 400 and
\* deletes no user and no post; the test of the id comes before the lookup of
\* the target, so the answer is 400 even for a caller who is no longer stored.
C9_NoSelfDelete ==
    /\ (AdminDeletes /\ last.id = last.user)
       => last.status = 400 /\ users = last.preUsers /\ posts = last.prePosts
    /\ \A u \in UserIds :
           LET r == deleteUser(u, u, Remove(users, {u}), posts) IN
           r.status = 400 /\ r.posts = posts

\* an admin who is not the only admin asked for their own deletion
C9_Witness ==
    /\ AdminDeletes
    /\ last.id = last.user
    /\ last.status = 400
    /\ \E u \in Stored(users) \ {last.user} : users[u].role = "admin"
    /\ PostsOf(posts, last.user) # {}

\* the token conditions under which auth must refuse the request
TokenRefused(tok, us) ==
    \/ tok.kind \in {"none", "malformed", "forged", "expired"}
    \/ tok.userId \notin Stored(us)
    \/ ~us[tok.userId].isActive

\* C10: auth answers 401, sets no req.user and does not call the handler when
\* the token is missing, malformed, wrongly signed, expired, names no stored
\* user or names an inactive user; a valid token of a stored active user
\* reaches the handler with req.user set to that user.
C10_AuthRejects ==
    last.op \in {"PutUser", "DeleteUser"} =>
        IF TokenRefused(last.tok, last.preUsers)
        THEN /\ last.status = 401
             /\ ~last.ran
             /\ last.user = "-"
             /\ users = last.preUsers
             /\ posts = last.prePosts
        ELSE last.op = "PutUser" => last.ran /\ last.user = last.tok.userId

\* a stored user whom an admin deactivated sent a request with a valid token
C10_Witness ==
    /\ last.op = "PutUser"
    /\ last.tok.kind = "valid"
    /\ last.tok.userId \in Stored(last.preUsers)
    /\ ~last.preUsers[last.tok.userId].isActive
    /\ last.status = 401

-----------------------------------------------------------------------------
(* Properties of the admin-only routes, under SpecAdmin.                    *)

\* the last request went to an admin-only route
AdminOnly == last.op \in {"ListUsers", "DeleteUser"}

\* C11: on GET /users and DELETE /users/:id a caller whom auth accepts and
\* whose role is not admin is answered 403 without the handler running: no
\* user is returned and no user or post is deleted; a caller without a token
\* is answered 401.
C11_AdminOnly ==
    AdminOnly =>
        LET a == auth(last.tok, last.preUsers) IN
        /\ (a.next /\ last.preUsers[a.user].role # "admin")
           => /\ last.status = 403
              /\ ~last.ran
              /\ ~Has(last.out, "users")
              /\ users = last.preUsers
              /\ posts = last.prePosts
        /\ last.tok.kind = "none" => last.status = 401 /\ ~last.ran

\* a user who is no admin asked for the deletion of a user who has posts
C11_Witness ==
    /\ last.op = "DeleteUser"
    /\ last.tok = [kind |-> "valid", userId |-> "b"]
    /\ last.id = "a"
    /\ last.status = 403
    /\ PostsOf(posts, "a") # {}

-----------------------------------------------------------------------------
(* Properties of optionalAuth, under SpecOptional.                          *)

\* the token verifies and names a stored, active user whom the lookup finds
Resolves ==
    /\ last.tok.kind = "valid"
    /\ ~last.req.lookupFails
    /\ last.tok.userId \in Stored(last.preUsers)
    /\ last.preUsers[last.tok.userId].isActive

\* C12: optionalAuth never sends a response: whatever the token and whether
\* or not the lookup of the user fails, it calls next once, and it sets
\* req.user exactly when the token verifies and names a stored active user.
C12_OptionalAuthPasses ==
    last.op = "OptionalAuth" =>
        /\ last.status = 0
        /\ last.ran
        /\ last.out.nextCalls = 1
        /\ (last.user # "-") = Resolves
        /\ last.user # "-" => last.user = last.tok.userId
        /\ users = last.preUsers
        /\ posts = last.prePosts

\* a deactivated user's valid token went through without req.user
C12_Witness ==
    /\ last.op = "OptionalAuth"
    /\ last.tok.kind = "valid"
    /\ last.tok.userId \in Stored(last.preUsers)
    /\ ~last.preUsers[last.tok.userId].isActive
    /\ ~last.req.lookupFails
    /\ last.ran
    /\ last.user = "-"

-----------------------------------------------------------------------------
(* Properties of the self-or-admin user routes, under SpecSelf.             *)

\* the role and the isActive flag of every user
Privileges(us) == [u \in Stored(us) |-> <<us[u].role, us[u].isActive>>]

\* C13: a request of a caller who is not an admin changes no user's role or
\* isActive flag; PUT /users/:id by such a caller, also on the caller's own
\* id, with role or isActive in the body is answered 403 (400 when the body
\* fails the validators) and leaves every user record as it was, the profile
\* fields sent in the same body included.
C13_PrivilegesAdminOnly ==
    (last.op # "none" /\ (~last.ran \/ ~CallerIsAdmin)) =>
        /\ Privileges(users) = Privileges(last.preUsers)
        /\ (Authenticated("UpdateUser") /\ (Has(last.req, "role") \/ Has(last.req, "isActive")))
           => /\ last.status = IF PutUserValid(last.req) THEN 403 ELSE 400
              /\ users = last.preUsers

\* a user asked to become admin and to change their first name in one body
C13_Witness ==
    /\ Authenticated("UpdateUser")
    /\ last.user = "a"
    /\ last.id = "a"
    /\ last.req = [firstName |-> FirstName1, role |-> "admin"]
    /\ last.status = 403
    /\ users["a"].firstName # FirstName1

\* the last request went to a self-or-admin route, came from an authenticated
\* caller who is no admin and named another user's id
ForeignRequest ==
    /\ last.op \in {"GetUser", "UpdateUser", "GetUserPosts", "GetUserStats"}
    /\ last.ran
    /\ ~CallerIsAdmin
    /\ last.id # last.user

\* the request carries nothing its route's validators object to: a valid
\* body or query string, and for GET /users/:id no query string at all
PlainRequest ==
    CASE last.op = "UpdateUser"   -> PutUserValid(last.req)
      [] last.op = "GetUserPosts" -> UserPostsValid(last.req)
      [] last.op = "GetUser"      -> last.req = <<>>
      [] OTHER                    -> TRUE

\* C14: on GET /users/:id, PUT /users/:id, GET /users/:id/posts and
\* GET /users/:id/stats an authenticated caller who is no admin and whose id
\* is not :id is answered 403, gets no data of the target user, and no user
\* is modified.
C14_ForeignUserForbidden ==
    (ForeignRequest /\ PlainRequest) =>
        /\ last.status = 403
        /\ ~Has(last.out, "user") /\ ~Has(last.out, "posts") /\ ~Has(last.out, "stats")
        /\ users = last.preUsers

\* C15: GET /users/:id with a valid token and no query string is answered
\* 200 with the stored user without its password when the user exists and
\* the caller is an admin or that user, and 404 when the caller is an admin
\* and no user has that id.
C15_GetUserById ==
    (Authenticated("GetUser") /\ last.req = <<>>) =>
        /\ (last.id \in Stored(last.preUsers) /\ (CallerIsAdmin \/ last.user = last.id))
           => /\ last.status = 200
              /\ Has(last.out, "user")
              /\ last.out.user = selectNoPassword(last.id, last.preUsers[last.id])
        /\ (last.id \notin Stored(last.preUsers) /\ CallerIsAdmin) => last.status = 404

-----------------------------------------------------------------------------
(* Properties of the registration, under SpecRegister and SpecRegConc.      *)

\* the submitted username or e-mail address is that of a user stored before
NameTaken ==
    \E u \in Stored(last.preUsers) :
        \/ Has(last.req, "username") /\ last.preUsers[u].username = last.req.username
        \/ Has(last.req, "email") /\ last.preUsers[u].email = last.req.email

\* C16: POST /auth/register with the username or the e-mail address of a
\* stored user is answered 400 and stores no user, whether or not the other
\* fields are valid.
C16_DuplicateRejected ==
    (last.op = "Register" /\ NameTaken) => last.status = 400 /\ users = last.preUsers

\* a valid body with a new username and a registered user's address was refused
C16_Witness ==
    /\ last.op = "Register"
    /\ RegisterValid(last.req)
    /\ last.status = 400
    /\ \A u \in Stored(users) : users[u].username # last.req.username
    /\ \E u \in Registered(users) : users[u].email = last.req.email

C18_RegisterSucceeds ==
    (last.op = "Register" /\ RegisterValid(last.req) /\ ~NameTaken
     /\ \A u \in Stored(last.preUsers) :
            /\ last.preUsers[u].username # trim(last.req.username)
            /\ last.preUsers[u].email # normalizeEmail(trim(last.req.email)))
    => /\ last.status = 201
       /\ Cardinality(Stored(users) \ Stored(last.preUsers)) = 1
       /\ \A u \in Stored(last.preUsers) : u \in Stored(users) /\ users[u] = last.preUsers[u]
       /\ ~Has(last.out.user, "password")
       /\ jwtVerify(last.out.token).ok
       /\ jwtVerify(last.out.token).userId \in Stored(users) \ Stored(last.preUsers)
       /\ last.out.user._id = jwtVerify(last.out.token).userId

-----------------------------------------------------------------------------
(* Properties of the creation of posts and of the slug, under SpecWrite.    *)

\* the posts stored by the last request
Created == Stored(posts) \ Stored(last.prePosts)

\* C19: POST /posts by an authenticated caller with a category id that names
\* no stored category is answered 404 and stores no post; with a stored
\* category the post is stored with the caller as author and, when the body
\* names no status, with status 'draft'.
C19_CreatePost ==
    (Authenticated("CreatePost") /\ CreatePostValid(PutPostTrim(last.req))) =>
        IF last.req.category \notin CategoryIds
        THEN last.status = 404 /\ posts = last.prePosts
        ELSE \E p \in Created :
                 /\ posts[p].author = last.user
                 /\ ~Has(last.req, "status") => posts[p].status = "draft"

\* C20: the slug of every stored post is the derivation of its title, also
\* after a PUT /posts/:id that changes the title and whatever slug a request
\* supplies, and no two stored posts have the same slug.
C20_SlugFollowsTitle ==
    /\ \A p \in Stored(posts) : posts[p].slug = generateSlug(posts[p].title)
    /\ \A p, q \in Stored(posts) : p # q => posts[p].slug # posts[q].slug

-----------------------------------------------------------------------------
(* Properties of the validation utilities.                                  *)

\* the argument is a number (or a numeric string) below n, resp. above n
Below(arg, n) == isInt(arg) /\ parseInt(arg).val < n

Above(arg, n) == isInt(arg) /\ parseInt(arg).val > n

\* C21: validatePagination throws for every page below 1, 0 and negative
\* numbers included, and for every limit below 1 or above 100; without
\* arguments it returns page 1 and limit 10.
C21_PaginationRange ==
    last.op = "ValidatePagination" =>
        /\ Below(last.req.page, 1) => ~last.out.ok
        /\ (Below(last.req.limit, 1) \/ Above(last.req.limit, LimitMax)) => ~last.out.ok
        /\ (last.req.page = Undefined /\ last.req.limit = Undefined)
           => last.out.ok /\ last.out.page = DefaultPage /\ last.out.limit = DefaultLimit


\* C22: sanitizeInput removes a whole script block, its tags and the text
\* between them: '<script>' + X + '</script>' + T gives T, as a string and as
\* a string-valued field of an object.
C22_ScriptBlocksRemoved ==
    (last.op = "SanitizeInput" /\ last.req.form = "script") => last.out.value = last.req.after


(* Property of utils/auth, checked under SpecValidation. *)

\* C23: decodeToken throws for every input that is not a parseable token, and
\* for a well-formed token it returns the claims whatever the signature and
\* the expiry are.
C23_DecodeThrowsOnGarbage ==
    last.op = "DecodeToken" =>
        /\ last.req.kind = "malformed" => ~last.out.ok
        /\ last.req.kind \in {"valid", "expired", "forged"}
           => last.out.ok /\ ~last.out.isNull /\ last.out.userId = last.req.userId


(* Property of GET /posts, checked under SpecSorted. *)

\* C24: GET /posts honours the sort parameters: with sort=views and order=desc
\* the posts of the page are in descending order of their view counters.
C24_SortedByViews ==
    (/\ last.op = "ListPosts"
     /\ last.status = 200
     /\ Has(last.req, "sort") /\ last.req.sort = "views"
     /\ Has(last.req, "order") /\ last.req.order = "desc")
    => \A i, j \in DOMAIN last.out.posts :
           i < j => last.prePosts[last.out.posts[i]].views >= last.prePosts[last.out.posts[j]].views


(* Property of the paginated routes, checked under SpecPaged. *)

PaginatedOps == {"ListPosts", "GetPostsByAuthor", "ListUsers", "GetUserProfile", "GetUserPosts"}

\* a page below 1 or a limit outside 1..100 in the query string
OutOfRange(q) ==
    \/ Has(q, "page") /\ Below(q.page, 1)
    \/ Has(q, "limit") /\ (Below(q.limit, 1) \/ Above(q.limit, LimitMax))

\* C25: on every paginated route a page or limit out of range is answered
\* with 400, never with 500 (requests the route refuses before it reads the
\* query, with 401, 403 or 404, aside).
C25_OutOfRangeIs400 ==
    (/\ last.op \in PaginatedOps
     /\ OutOfRange(last.req)
     /\ last.status \notin {401, 403, 404})
    => last.status = 400


(* Property of the guards of middleware/auth, checked under SpecGuards. *)

GuardOps == {"AuthRequest", "AdminAuthRequest", "CheckOwnershipRequest"}

\* C26: a request that goes through auth, adminAuth or checkOwnership has
\* exactly one outcome: one response, with status 401, 403, 404 or 500, and no
\* call of next, or one call of next and no response.
C26_OneOutcome ==
    last.op \in GuardOps =>
        /\ Len(last.out.responses) + last.out.nexts = 1
        /\ \A i \in DOMAIN last.out.responses : last.out.responses[i] \in {401, 403, 404, 500}

\* a user who is no admin passes auth and is refused by adminAuth's callback
C26_Witness ==
    /\ last.op = "AdminAuthRequest"
    /\ last.tok.kind = "valid"
    /\ last.out.responses = <<403>>
    /\ last.out.nexts = 0


(* Property of concurrent like requests, checked under SpecLikeConc. *)

\* C27: starting from like lists without duplicates, whatever like requests
\* run and however they interleave, every user id occurs at most once in the
\* likes of every post, so likeCount is the number of distinct likers.
C27_NoDuplicateLikes ==
    \A p \in Stored(posts) :
        /\ \A i, j \in DOMAIN posts[p].likes : i # j => posts[p].likes[i] # posts[p].likes[j]
        /\ Len(posts[p].likes) = Cardinality({ posts[p].likes[i] : i \in DOMAIN posts[p].likes })


(* Property of user deletion and post writes, checked under SpecOrphans. *)

\* C28: the author of every stored post is a stored user, whatever requests
\* ran and however a DELETE /users/:id interleaved with post writes of the
\* deleted user.
C28_AuthorsStored ==
    \A p \in Stored(posts) : posts[p].author \in Stored(users)


(* Property of the reads of a single post, checked under SpecReads. *)

\* the stored posts a read addresses, by identifier or by slug
Addressed ==
    IF last.op = "GetPost"
    THEN { p \in Stored(last.prePosts) : p = last.id }
    ELSE { p \in Stored(last.prePosts) : last.prePosts[p].slug = last.req.slug }

\* C29: GET /posts/:id and GET /posts/slug/:slug without a token never return
\* a post that is not published, and such a request leaves the post's view
\* counter as it was.
C29_UnpublishedHidden ==
    (last.op \in {"GetPost", "GetPostBySlug"} /\ last.tok = NoToken)
    => \A p \in Addressed :
           last.prePosts[p].status # "published"
           => /\ last.status # 200
              /\ posts[p].views = last.prePosts[p].views


(* Property of the order of the tests in the self-or-admin routes, checked   *)
(* under SpecSelf.                                                           *)

\* C30: on PUT /users/:id, GET /users/:id/posts and GET /users/:id/stats the
\* permission test comes before the lookup of the user: an authenticated
\* caller who is no admin and names another id is answered 403 whether or not
\* a user with that id exists (400 when the validators object first), and a
\* 404 for another id is only ever sent to an admin.
C30_PermissionBeforeExistence ==
    (/\ last.op \in {"UpdateUser", "GetUserPosts", "GetUserStats"}
     /\ last.ran
     /\ last.id # last.user)
    => /\ ~CallerIsAdmin => last.status = IF PlainRequest THEN 403 ELSE 400
       /\ last.status = 404 => CallerIsAdmin

\* a user who is no admin asks for the statistics of an id that no user has
C30_Witness ==
    /\ last.op = "GetUserStats"
    /\ last.ran
    /\ last.user = "a"
    /\ last.id = GhostId
    /\ last.id \notin Stored(last.preUsers)
    /\ last.status = 403

====
